---- MODULE Spec2Model ----
(***************************************************************************)
(* SPH momentum formulation (Monaghan / Adami): the pairwise force kernel  *)
(* of src/src/inpar/4C_inpar_poromultiphase_scatra.cpp, lines 195-434.     *)
(*                                                                         *)
(* double values are modelled as exact rationals <<num, den>> in lowest    *)
(* terms (den > 0), plus one absorbing non-finite value NF that stands for *)
(* the IEEE results inf / NaN of a division by zero.  Rounding of finite   *)
(* results is not modelled.                                                *)
(***************************************************************************)
EXTENDS Integers, Sequences, FiniteSets, TLC

\* ------------------------------------------------------------------ bounds

\* largest magnitude of an integer input drawn for a particle / pair quantity
MaxVal == 2
\* number of formulation calls issued for one pair
MaxCalls == 3

\* ------------------------------------------------------- double arithmetic

Abs(n) == IF n < 0 THEN -n ELSE n

RECURSIVE GCD(_, _)
GCD(a, b) == IF b = 0 THEN a ELSE GCD(b, a % b)

\* inf or NaN
NF == <<0, 0>>
IsNF(x) == x[2] = 0

Norm(n, d) ==
  IF d = 0 THEN NF
  ELSE LET g == GCD(Abs(n), Abs(d))
           s == IF d < 0 THEN -1 ELSE 1
       IN  <<(s * n) \div g, (s * d) \div g>>

\* the double with integer value n
R(n) == <<n, 1>>
\* the double n/d
Q(n, d) == Norm(n, d)

Add(x, y) == IF IsNF(x) \/ IsNF(y) THEN NF
             ELSE Norm(x[1] * y[2] + y[1] * x[2], x[2] * y[2])
Neg(x) == IF IsNF(x) THEN NF ELSE <<-x[1], x[2]>>
Sub(x, y) == Add(x, Neg(y))
Mul(x, y) == IF IsNF(x) \/ IsNF(y) THEN NF
             ELSE Norm(x[1] * y[1], x[2] * y[2])
\* x / 0.0 is +-inf or NaN, never a trap
Div(x, y) == IF IsNF(x) \/ IsNF(y) THEN NF
             ELSE IF y[1] = 0 THEN NF
             ELSE Norm(x[1] * y[2], x[2] * y[1])
\* x > 0.0 and x < 0.0 (false on NaN)
Gt0(x) == ~IsNF(x) /\ x[1] > 0
Lt0(x) == ~IsNF(x) /\ x[1] < 0
IsZero(x) == ~IsNF(x) /\ x[1] = 0

\* ------------------------------------------- Utils:: fixed-size vector math

pow2(x) == Mul(x, x)

Vec(a, b, c) == <<R(a), R(b), R(c)>>
ZeroVec == Vec(0, 0, 0)

\* c = a
vec_set(c, a) == a
\* c -= a
vec_sub(c, a) == [k \in 1..3 |-> Sub(c[k], a[k])]
\* c += fac * a
vec_add_scale(c, fac, a) == [k \in 1..3 |-> Add(c[k], Mul(fac, a[k]))]
\* a . b
vec_dot(a, b) == Add(Add(Mul(a[1], b[1]), Mul(a[2], b[2])), Mul(a[3], b[3]))

VNeg(a) == [k \in 1..3 |-> Neg(a[k])]
VAdd(a, b) == [k \in 1..3 |-> Add(a[k], b[k])]
VSub(a, b) == [k \in 1..3 |-> Sub(a[k], b[k])]
VScale(f, a) == [k \in 1..3 |-> Mul(f, a[k])]

\* ---------------------------------------------------------------- pointers

\* a double* argument: null, or the address of a caller-owned buffer whose
\* content is `at`
NullPtr == [null |-> TRUE, at |-> ZeroVec]
PtrTo(v) == [null |-> FALSE, at |-> v]
NonNull(ptr) == ~ptr.null

\* the error raised by FOUR_C_THROW in Monaghan shear_forces
NoError == "none"
NegDiffusion == "diffusion coefficient is negative!"

\* what a call leaves behind: the two output buffers and the raised error
Ret(out_i, out_j) == [out_i |-> out_i, out_j |-> out_j, err |-> NoError]
Throw(out_i, out_j, e) == [out_i |-> out_i, out_j |-> out_j, err |-> e]

\* mutant: the null guard is missing, the addition goes through the pointer
UnguardedAddScale(ptr, fac, a) == PtrTo(vec_add_scale(ptr.at, fac, a))

\* if (ptr) Utils::vec_add_scale(ptr, fac, a);
GuardedAddScale(ptr, fac, a) ==
  IF NonNull(ptr) THEN PtrTo(vec_add_scale(ptr.at, fac, a)) ELSE ptr

\* if (ptr) ptr[0] = val;
GuardedStore(ptr, val) ==
  IF NonNull(ptr) THEN PtrTo(val) ELSE ptr

\* ------------------------------------------- SPHMomentumFormulationMonaghan

\* mutant: each side scaled by its own mass instead of the neighbour's
Monaghan_specific_coefficient_own_mass(a, speccoeff_ij, speccoeff_ji) ==
  Ret(GuardedStore(speccoeff_ij, Mul(a.dWdrij, a.mass_i)),
      GuardedStore(speccoeff_ji, Mul(a.dWdrji, a.mass_j)))

Monaghan_specific_coefficient(a, speccoeff_ij, speccoeff_ji) ==
  Ret(GuardedStore(speccoeff_ij, Mul(a.dWdrij, a.mass_j)),
      GuardedStore(speccoeff_ji, Mul(a.dWdrji, a.mass_i)))

\* mutant: index slip, both terms normalised by dens_i
Monaghan_pressure_fac_slip(a) ==
  Add(Div(a.press_i, pow2(a.dens_i)), Div(a.press_j, pow2(a.dens_i)))

\* mutant: the densities are not squared
Monaghan_pressure_fac_unsquared(a) ==
  Add(Div(a.press_i, a.dens_i), Div(a.press_j, a.dens_j))

Monaghan_pressure_fac(a) ==
  Add(Div(a.press_i, pow2(a.dens_i)), Div(a.press_j, pow2(a.dens_j)))

\* mutant: the accumulators are overwritten (vec_set in place of vec_add_scale)
Monaghan_pressure_gradient_overwrite(a, speccoeff_ij, speccoeff_ji, acc_i, acc_j) ==
  LET fac == Add(Div(a.press_i, pow2(a.dens_i)), Div(a.press_j, pow2(a.dens_j)))
  IN  Ret(GuardedAddScale(GuardedStore(acc_i, ZeroVec), Mul(Neg(speccoeff_ij), fac), a.e_ij),
          GuardedAddScale(GuardedStore(acc_j, ZeroVec), Mul(speccoeff_ji, fac), a.e_ij))

Monaghan_pressure_gradient(a, speccoeff_ij, speccoeff_ji, acc_i, acc_j) ==
  LET fac == Monaghan_pressure_fac(a)
  IN  Ret(GuardedAddScale(acc_i, Mul(Neg(speccoeff_ij), fac), a.e_ij),
          GuardedAddScale(acc_j, Mul(speccoeff_ji, fac), a.e_ij))

\* scaled_viscosity of Monaghan shear_forces
Monaghan_scaled_viscosity(visc_i, visc_j) ==
  IF Gt0(visc_i) /\ Gt0(visc_j)
  THEN Div(Mul(Mul(R(2), visc_i), visc_j), Mul(R(3), Add(visc_i, visc_j)))
  ELSE R(0)

\* bulk_viscosity of Monaghan shear_forces
Monaghan_bulk_viscosity(bulk_visc_i, bulk_visc_j) ==
  IF Gt0(bulk_visc_i) /\ Gt0(bulk_visc_j)
  THEN Div(Mul(Mul(R(2), bulk_visc_i), bulk_visc_j), Add(bulk_visc_i, bulk_visc_j))
  ELSE R(0)

\* mutant: missing parentheses, kernelfac scales the bulk viscosity only
Monaghan_convection_coeff_precedence(a) ==
  Add(Mul(a.kernelfac, Monaghan_bulk_viscosity(a.bulk_visc_i, a.bulk_visc_j)),
      Monaghan_scaled_viscosity(a.visc_i, a.visc_j))

Monaghan_convection_coeff(a) ==
  Mul(a.kernelfac, Add(Monaghan_bulk_viscosity(a.bulk_visc_i, a.bulk_visc_j),
                       Monaghan_scaled_viscosity(a.visc_i, a.visc_j)))

Monaghan_diffusion_coeff(a) ==
  Sub(Mul(R(5), Monaghan_scaled_viscosity(a.visc_i, a.visc_j)),
      Monaghan_bulk_viscosity(a.bulk_visc_i, a.bulk_visc_j))

\* mutant: the safety check on diffusion_coeff is missing
Monaghan_shear_forces_unchecked(a, speccoeff_ij, speccoeff_ji, acc_i, acc_j) ==
  LET vel_ij == vec_sub(vec_set(ZeroVec, a.vel_i), a.vel_j)
      inv == Div(R(1), Mul(Mul(a.dens_i, a.dens_j), a.abs_rij))
      fac_diff == Mul(Monaghan_diffusion_coeff(a), inv)
      fac_conv == Mul(Mul(Monaghan_convection_coeff(a), vec_dot(vel_ij, a.e_ij)), inv)
  IN  Ret(GuardedAddScale(GuardedAddScale(acc_i, Mul(speccoeff_ij, fac_diff), vel_ij),
                          Mul(speccoeff_ij, fac_conv), a.e_ij),
          GuardedAddScale(GuardedAddScale(acc_j, Mul(Neg(speccoeff_ji), fac_diff), vel_ij),
                          Mul(Neg(speccoeff_ji), fac_conv), a.e_ij))

\* mutant: the safety check comes after the diffusion term has been added
Monaghan_shear_forces_late_check(a, speccoeff_ij, speccoeff_ji, acc_i, acc_j) ==
  LET vel_ij == vec_sub(vec_set(ZeroVec, a.vel_i), a.vel_j)
      inv == Div(R(1), Mul(Mul(a.dens_i, a.dens_j), a.abs_rij))
      fac_diff == Mul(Monaghan_diffusion_coeff(a), inv)
      fac_conv == Mul(Mul(Monaghan_convection_coeff(a), vec_dot(vel_ij, a.e_ij)), inv)
      diff_i == GuardedAddScale(acc_i, Mul(speccoeff_ij, fac_diff), vel_ij)
      diff_j == GuardedAddScale(acc_j, Mul(Neg(speccoeff_ji), fac_diff), vel_ij)
  IN  IF Lt0(Monaghan_diffusion_coeff(a))
      THEN Throw(diff_i, diff_j, NegDiffusion)
      ELSE Ret(GuardedAddScale(diff_i, Mul(speccoeff_ij, fac_conv), a.e_ij),
               GuardedAddScale(diff_j, Mul(Neg(speccoeff_ji), fac_conv), a.e_ij))

Monaghan_shear_forces(a, speccoeff_ij, speccoeff_ji, acc_i, acc_j) ==
  LET convection_coeff == Monaghan_convection_coeff(a)
      diffusion_coeff == Monaghan_diffusion_coeff(a)
      vel_ij == vec_sub(vec_set(ZeroVec, a.vel_i), a.vel_j)
      inv_densi_densj_absdist == Div(R(1), Mul(Mul(a.dens_i, a.dens_j), a.abs_rij))
      fac_diff == Mul(diffusion_coeff, inv_densi_densj_absdist)
      fac_conv == Mul(Mul(convection_coeff, vec_dot(vel_ij, a.e_ij)),
                      inv_densi_densj_absdist)
      diff_i == GuardedAddScale(acc_i, Mul(speccoeff_ij, fac_diff), vel_ij)
      diff_j == GuardedAddScale(acc_j, Mul(Neg(speccoeff_ji), fac_diff), vel_ij)
  IN  IF Lt0(diffusion_coeff)
      THEN Throw(acc_i, acc_j, NegDiffusion)
      ELSE Ret(GuardedAddScale(diff_i, Mul(speccoeff_ij, fac_conv), a.e_ij),
               GuardedAddScale(diff_j, Mul(Neg(speccoeff_ji), fac_conv), a.e_ij))

\* mutant: each side normalised by its own density alone
Monaghan_standard_background_pressure_per_side(a, speccoeff_ij, speccoeff_ji, mod_acc_i, mod_acc_j) ==
  Ret(GuardedAddScale(mod_acc_i,
        Mul(Mul(Neg(speccoeff_ij), a.bg_press_i), Div(R(1), pow2(a.dens_i))), a.e_ij),
      GuardedAddScale(mod_acc_j,
        Mul(Mul(speccoeff_ji, a.bg_press_j), Div(R(1), pow2(a.dens_j))), a.e_ij))

Monaghan_standard_background_pressure(a, speccoeff_ij, speccoeff_ji, mod_acc_i, mod_acc_j) ==
  LET fac == Add(Div(R(1), pow2(a.dens_i)), Div(R(1), pow2(a.dens_j)))
  IN  Ret(GuardedAddScale(mod_acc_i, Mul(Mul(Neg(speccoeff_ij), a.bg_press_i), fac), a.e_ij),
          GuardedAddScale(mod_acc_j, Mul(Mul(speccoeff_ji, a.bg_press_j), fac), a.e_ij))

Monaghan_generalized_background_pressure(a, mod_acc_i, mod_acc_j) ==
  Ret(GuardedAddScale(mod_acc_i,
        Mul(Mul(Neg(a.mod_bg_press_i), Div(a.mass_j, pow2(a.dens_i))), a.mod_dWdrij),
        a.e_ij),
      GuardedAddScale(mod_acc_j,
        Mul(Mul(a.mod_bg_press_j, Div(a.mass_i, pow2(a.dens_j))), a.mod_dWdrji),
        a.e_ij))

\* mutant: the true velocity is not subtracted from the modified velocity
Monaghan_modvel_side_nosub(A_ij_e_ij, mod_vel, vel, dens, e_ij) ==
  IF NonNull(mod_vel)
  THEN vec_add_scale(A_ij_e_ij, Div(vec_dot(mod_vel.at, e_ij), dens), vel)
  ELSE A_ij_e_ij

\* one side's block of modified_velocity_contribution: A_ij_e_ij after
\* if (mod_vel) { modvel = mod_vel - vel; A += (weight * modvel.e_ij) * vel; }
Monaghan_modvel_side(A_ij_e_ij, mod_vel, vel, dens, e_ij) ==
  IF NonNull(mod_vel)
  THEN LET modvel == vec_sub(vec_set(ZeroVec, mod_vel.at), vel)
       IN  vec_add_scale(A_ij_e_ij, Div(vec_dot(modvel, e_ij), dens), vel)
  ELSE A_ij_e_ij

Monaghan_A_ij_e_ij(a) ==
  Monaghan_modvel_side(
    Monaghan_modvel_side(ZeroVec, a.mod_vel_i, a.vel_i, a.dens_i, a.e_ij),
    a.mod_vel_j, a.vel_j, a.dens_j, a.e_ij)

\* mutant: index slip, the j side is scaled by speccoeff_ij as well
Monaghan_modified_velocity_contribution_one_coeff(a, speccoeff_ij, speccoeff_ji, acc_i, acc_j) ==
  LET A_ij_e_ij == Monaghan_A_ij_e_ij(a)
  IN  Ret(GuardedAddScale(acc_i, speccoeff_ij, A_ij_e_ij),
          GuardedAddScale(acc_j, Neg(speccoeff_ij), A_ij_e_ij))

Monaghan_modified_velocity_contribution(a, speccoeff_ij, speccoeff_ji, acc_i, acc_j) ==
  LET A_ij_e_ij == Monaghan_A_ij_e_ij(a)
  IN  Ret(GuardedAddScale(acc_i, speccoeff_ij, A_ij_e_ij),
          GuardedAddScale(acc_j, Neg(speccoeff_ji), A_ij_e_ij))

\* ---------------------------------------------- SPHMomentumFormulationAdami

\* mutant: only the mass is squared, m^2/rho instead of (m/rho)^2
Adami_specific_fac_mass_squared(a) ==
  Add(Div(pow2(a.mass_i), a.dens_i), Div(pow2(a.mass_j), a.dens_j))

Adami_specific_fac(a) ==
  Add(pow2(Div(a.mass_i, a.dens_i)), pow2(Div(a.mass_j, a.dens_j)))

\* mutant: each side divided by the neighbour's mass
Adami_specific_coefficient_neighbour_mass(a, speccoeff_ij, speccoeff_ji) ==
  LET fac == Adami_specific_fac(a)
  IN  Ret(GuardedStore(speccoeff_ij, Mul(fac, Div(a.dWdrij, a.mass_j))),
          GuardedStore(speccoeff_ji, Mul(fac, Div(a.dWdrji, a.mass_i))))

Adami_specific_coefficient(a, speccoeff_ij, speccoeff_ji) ==
  LET fac == Adami_specific_fac(a)
  IN  Ret(GuardedStore(speccoeff_ij, Mul(fac, Div(a.dWdrij, a.mass_i))),
          GuardedStore(speccoeff_ji, Mul(fac, Div(a.dWdrji, a.mass_j))))

\* mutant: index slip in the denominator
Adami_pressure_fac_slip(a) ==
  Div(Add(Mul(a.dens_i, a.press_j), Mul(a.dens_j, a.press_i)),
      Add(a.dens_i, a.dens_i))

\* mutant: each pressure weighted by its own density
Adami_pressure_fac_own_weight(a) ==
  Div(Add(Mul(a.dens_i, a.press_i), Mul(a.dens_j, a.press_j)),
      Add(a.dens_i, a.dens_j))

Adami_pressure_fac(a) ==
  Div(Add(Mul(a.dens_i, a.press_j), Mul(a.dens_j, a.press_i)),
      Add(a.dens_i, a.dens_j))

Adami_pressure_gradient(a, speccoeff_ij, speccoeff_ji, acc_i, acc_j) ==
  LET fac == Adami_pressure_fac(a)
  IN  Ret(GuardedAddScale(acc_i, Mul(Neg(speccoeff_ij), fac), a.e_ij),
          GuardedAddScale(acc_j, Mul(speccoeff_ji, fac), a.e_ij))

\* mutant: "or" in place of "and" in the viscosity test
Adami_shear_forces_or(a, speccoeff_ij, speccoeff_ji, acc_i, acc_j) ==
  IF Gt0(a.visc_i) \/ Gt0(a.visc_j)
  THEN LET viscosity == Div(Mul(Mul(R(2), a.visc_i), a.visc_j),
                            Add(a.visc_i, a.visc_j))
           vel_ij == vec_sub(vec_set(ZeroVec, a.vel_i), a.vel_j)
           fac == Div(viscosity, a.abs_rij)
       IN  Ret(GuardedAddScale(acc_i, Mul(speccoeff_ij, fac), vel_ij),
               GuardedAddScale(acc_j, Mul(Neg(speccoeff_ji), fac), vel_ij))
  ELSE Ret(acc_i, acc_j)

\* mutant: a non-positive viscosity is rejected instead of skipped
Adami_shear_forces_throwing(a, speccoeff_ij, speccoeff_ji, acc_i, acc_j) ==
  IF Gt0(a.visc_i) /\ Gt0(a.visc_j)
  THEN LET viscosity == Div(Mul(Mul(R(2), a.visc_i), a.visc_j),
                            Add(a.visc_i, a.visc_j))
           vel_ij == vec_sub(vec_set(ZeroVec, a.vel_i), a.vel_j)
           fac == Div(viscosity, a.abs_rij)
       IN  Ret(GuardedAddScale(acc_i, Mul(speccoeff_ij, fac), vel_ij),
               GuardedAddScale(acc_j, Mul(Neg(speccoeff_ji), fac), vel_ij))
  ELSE Throw(acc_i, acc_j, "viscosity is not positive!")

\* mutant: ">= 0.0" in place of "> 0.0" in the viscosity test
Adami_shear_forces_ge(a, speccoeff_ij, speccoeff_ji, acc_i, acc_j) ==
  IF ~Lt0(a.visc_i) /\ ~Lt0(a.visc_j)
  THEN LET viscosity == Div(Mul(Mul(R(2), a.visc_i), a.visc_j),
                            Add(a.visc_i, a.visc_j))
           vel_ij == vec_sub(vec_set(ZeroVec, a.vel_i), a.vel_j)
           fac == Div(viscosity, a.abs_rij)
       IN  Ret(GuardedAddScale(acc_i, Mul(speccoeff_ij, fac), vel_ij),
               GuardedAddScale(acc_j, Mul(Neg(speccoeff_ji), fac), vel_ij))
  ELSE Ret(acc_i, acc_j)

\* mutant: the Monaghan normalisation by dens_i*dens_j carried over
Adami_shear_forces_density(a, speccoeff_ij, speccoeff_ji, acc_i, acc_j) ==
  IF Gt0(a.visc_i) /\ Gt0(a.visc_j)
  THEN LET viscosity == Div(Mul(Mul(R(2), a.visc_i), a.visc_j),
                            Add(a.visc_i, a.visc_j))
           vel_ij == vec_sub(vec_set(ZeroVec, a.vel_i), a.vel_j)
           fac == Div(viscosity, Mul(Mul(a.dens_i, a.dens_j), a.abs_rij))
       IN  Ret(GuardedAddScale(acc_i, Mul(speccoeff_ij, fac), vel_ij),
               GuardedAddScale(acc_j, Mul(Neg(speccoeff_ji), fac), vel_ij))
  ELSE Ret(acc_i, acc_j)

Adami_shear_forces(a, speccoeff_ij, speccoeff_ji, acc_i, acc_j) ==
  IF Gt0(a.visc_i) /\ Gt0(a.visc_j)
  THEN LET viscosity == Div(Mul(Mul(R(2), a.visc_i), a.visc_j),
                            Add(a.visc_i, a.visc_j))
           vel_ij == vec_sub(vec_set(ZeroVec, a.vel_i), a.vel_j)
           fac == Div(viscosity, a.abs_rij)
       IN  Ret(GuardedAddScale(acc_i, Mul(speccoeff_ij, fac), vel_ij),
               GuardedAddScale(acc_j, Mul(Neg(speccoeff_ji), fac), vel_ij))
  ELSE Ret(acc_i, acc_j)

Adami_standard_background_pressure(a, speccoeff_ij, speccoeff_ji, mod_acc_i, mod_acc_j) ==
  Ret(GuardedAddScale(mod_acc_i, Mul(Neg(speccoeff_ij), a.bg_press_i), a.e_ij),
      GuardedAddScale(mod_acc_j, Mul(speccoeff_ji, a.bg_press_j), a.e_ij))

\* mutant: each side weighted by the neighbour's mass, as in Monaghan
Adami_generalized_background_pressure_neighbour_mass(a, mod_acc_i, mod_acc_j) ==
  Ret(GuardedAddScale(mod_acc_i,
        Div(Neg(Mul(Mul(a.mod_bg_press_i, a.mass_j), a.mod_dWdrij)), pow2(a.dens_i)),
        a.e_ij),
      GuardedAddScale(mod_acc_j,
        Div(Mul(Mul(a.mod_bg_press_j, a.mass_i), a.mod_dWdrji), pow2(a.dens_j)),
        a.e_ij))

Adami_generalized_background_pressure(a, mod_acc_i, mod_acc_j) ==
  Ret(GuardedAddScale(mod_acc_i,
        Div(Neg(Mul(Mul(a.mod_bg_press_i, a.mass_i), a.mod_dWdrij)), pow2(a.dens_i)),
        a.e_ij),
      GuardedAddScale(mod_acc_j,
        Div(Mul(Mul(a.mod_bg_press_j, a.mass_j), a.mod_dWdrji), pow2(a.dens_j)),
        a.e_ij))

\* mutant: the side's term is directed along e_ij instead of its velocity
Adami_modvel_side_along_e(A_ij_e_ij, mod_vel, vel, dens, e_ij) ==
  IF NonNull(mod_vel)
  THEN LET modvel == vec_sub(vec_set(ZeroVec, mod_vel.at), vel)
       IN  vec_add_scale(A_ij_e_ij, Mul(Mul(Q(1, 2), dens), vec_dot(modvel, e_ij)), e_ij)
  ELSE A_ij_e_ij

Adami_modvel_side(A_ij_e_ij, mod_vel, vel, dens, e_ij) ==
  IF NonNull(mod_vel)
  THEN LET modvel == vec_sub(vec_set(ZeroVec, mod_vel.at), vel)
       IN  vec_add_scale(A_ij_e_ij, Mul(Mul(Q(1, 2), dens), vec_dot(modvel, e_ij)), vel)
  ELSE A_ij_e_ij

Adami_A_ij_e_ij(a) ==
  Adami_modvel_side(
    Adami_modvel_side(ZeroVec, a.mod_vel_i, a.vel_i, a.dens_i, a.e_ij),
    a.mod_vel_j, a.vel_j, a.dens_j, a.e_ij)

Adami_modified_velocity_contribution(a, speccoeff_ij, speccoeff_ji, acc_i, acc_j) ==
  LET A_ij_e_ij == Adami_A_ij_e_ij(a)
  IN  Ret(GuardedAddScale(acc_i, speccoeff_ij, A_ij_e_ij),
          GuardedAddScale(acc_j, Neg(speccoeff_ji), A_ij_e_ij))

\* ------------------------------------------------- dispatch on the variant

Variants == {"Monaghan", "Adami"}

OpSpecific == "specific_coefficient"
OpPressure == "pressure_gradient"
OpShear == "shear_forces"
OpStdBg == "standard_background_pressure"
OpGenBg == "generalized_background_pressure"
OpModVel == "modified_velocity_contribution"
\* the lifecycle hooks of SPHMomentumFormulationBase
OpInit == "init"
OpSetup == "setup"
LifecycleOps == {OpInit, OpSetup}

\* the operations adding into acc_i / acc_j, and those adding into
\* mod_acc_i / mod_acc_j
AccOps == {OpPressure, OpShear, OpModVel}
ModAccOps == {OpStdBg, OpGenBg}
ForceOps == AccOps \cup ModAccOps

\* virtual call of a force operation on the formulation object of variant v;
\* out_i / out_j are the accumulator pointers the operation takes
Call(v, op, a, sc_ij, sc_ji, out_i, out_j) ==
  IF v = "Monaghan"
  THEN CASE op = OpPressure -> Monaghan_pressure_gradient(a, sc_ij, sc_ji, out_i, out_j)
         [] op = OpShear -> Monaghan_shear_forces(a, sc_ij, sc_ji, out_i, out_j)
         [] op = OpStdBg -> Monaghan_standard_background_pressure(a, sc_ij, sc_ji, out_i, out_j)
         [] op = OpGenBg -> Monaghan_generalized_background_pressure(a, out_i, out_j)
         [] op = OpModVel -> Monaghan_modified_velocity_contribution(a, sc_ij, sc_ji, out_i, out_j)
  ELSE CASE op = OpPressure -> Adami_pressure_gradient(a, sc_ij, sc_ji, out_i, out_j)
         [] op = OpShear -> Adami_shear_forces(a, sc_ij, sc_ji, out_i, out_j)
         [] op = OpStdBg -> Adami_standard_background_pressure(a, sc_ij, sc_ji, out_i, out_j)
         [] op = OpGenBg -> Adami_generalized_background_pressure(a, out_i, out_j)
         [] op = OpModVel -> Adami_modified_velocity_contribution(a, sc_ij, sc_ji, out_i, out_j)

CallSpecific(v, a, out_ij, out_ji) ==
  IF v = "Monaghan"
  THEN Monaghan_specific_coefficient(a, out_ij, out_ji)
  ELSE Adami_specific_coefficient(a, out_ij, out_ji)

\* ------------------------------------------------------ caller-side inputs

Pos == 1..MaxVal
NonNeg == 0..MaxVal
Signed == -1..MaxVal
Signs == {-1, 1}

\* unit separation vectors e_ij
EVecs == {Vec(1, 0, 0), <<Q(3, 5), Q(-4, 5), R(0)>>}

\* one pair (i, j) as the evaluator passes it
BasePair ==
  [dens_i |-> R(2), dens_j |-> R(1), mass_i |-> R(1), mass_j |-> R(2),
   press_i |-> R(1), press_j |-> R(2),
   vel_i |-> Vec(1, 0, 2), vel_j |-> Vec(0, 1, 1),
   kernelfac |-> R(5),
   visc_i |-> R(1), visc_j |-> R(2), bulk_visc_i |-> R(1), bulk_visc_j |-> R(1),
   abs_rij |-> R(2), e_ij |-> Vec(1, 0, 0),
   dWdrij |-> R(-1), dWdrji |-> R(-1),
   bg_press_i |-> R(1), bg_press_j |-> R(2),
   mod_bg_press_i |-> R(2), mod_bg_press_j |-> R(1),
   mod_dWdrij |-> R(-1), mod_dWdrji |-> R(-2),
   mod_vel_i |-> PtrTo(Vec(2, 0, 2)), mod_vel_j |-> PtrTo(Vec(0, 1, 3))]

\* the supplied contents of the two speccoeff buffers
BaseCoeffs == <<R(-1), R(-2)>>
CoeffPairs == {<<R(-1), R(-1)>>, <<R(2), R(-1)>>, <<R(0), R(2)>>}

\* inputs of specific_coefficient
CoeffInputs ==
  {<<[BasePair EXCEPT !.dens_i = R(di), !.dens_j = R(dj),
                      !.mass_i = R(mi), !.mass_j = R(mj),
                      !.dWdrij = R(wi), !.dWdrji = R(wj)], BaseCoeffs>> :
     di \in Pos, dj \in Pos, mi \in NonNeg, mj \in NonNeg,
     wi \in Signs, wj \in Signs}

\* inputs of pressure_gradient
PressureInputs ==
  {<<[BasePair EXCEPT !.dens_i = R(di), !.dens_j = R(dj),
                      !.press_i = R(pi), !.press_j = R(pj)], sc>> :
     di \in Pos, dj \in Pos, pi \in Signed, pj \in NonNeg, sc \in CoeffPairs}

\* inputs of shear_forces
ShearInputs ==
  {<<[BasePair EXCEPT !.visc_i = R(vi), !.visc_j = R(vj),
                      !.bulk_visc_i = R(bi), !.bulk_visc_j = R(bj),
                      !.abs_rij = R(r)], BaseCoeffs>> :
     vi \in Signed, vj \in Signed, bi \in NonNeg, bj \in NonNeg,
     r \in 0..(MaxVal - 1)}

\* inputs of the background-pressure operations
BackgroundInputs ==
  {<<[BasePair EXCEPT !.bg_press_i = R(bi), !.bg_press_j = R(bj),
                      !.mod_bg_press_i = R(gi), !.mod_bg_press_j = R(gj)], BaseCoeffs>> :
     bi \in Pos, bj \in Pos, gi \in Pos, gj \in Pos}

\* a modified-velocity pointer: null, the true velocity, or another velocity
ModVelChoices(vel) == {NullPtr, PtrTo(vel), PtrTo(VAdd(vel, Vec(1, 0, 1)))}

\* inputs of modified_velocity_contribution
ModVelInputs ==
  {<<[BasePair EXCEPT !.dens_i = R(di), !.dens_j = R(dj), !.e_ij = e,
                      !.mod_vel_i = mi, !.mod_vel_j = mj], sc>> :
     di \in Pos, dj \in Pos, e \in EVecs,
     mi \in ModVelChoices(BasePair.vel_i), mj \in ModVelChoices(BasePair.vel_j),
     sc \in CoeffPairs}

PairInputs ==
  CoeffInputs \cup PressureInputs \cup ShearInputs \cup BackgroundInputs \cup ModVelInputs

\* inputs of the runs that issue several calls for one pair: without bulk
\* viscosity, and with a bulk viscosity that makes Monaghan shear_forces fail
SeqInputs ==
  {<<[BasePair EXCEPT !.visc_i = R(1), !.visc_j = R(1),
                      !.bulk_visc_i = R(b), !.bulk_visc_j = R(b),
                      !.e_ij = <<Q(3, 5), Q(-4, 5), R(0)>>], BaseCoeffs>> :
     b \in {0, MaxVal}}

\* inputs of the runs that evaluate one pair as the pair loop does,
\* specific_coefficient first and a force term after it, for particles of
\* the smallest and the largest mass and density
Extremes == {1, MaxVal}
PairLoopInputs ==
  {<<[BasePair EXCEPT !.dens_i = R(di), !.dens_j = R(dj),
                      !.mass_i = R(mi), !.mass_j = R(mj)], BaseCoeffs>> :
     di \in Extremes, dj \in Extremes, mi \in Extremes, mj \in Extremes}

\* the accumulators as the caller hands them over
Acc0_i == Vec(1, -2, 3)
Acc0_j == Vec(0, 4, -1)
ModAcc0_i == Vec(-1, 0, 2)
ModAcc0_j == Vec(3, 1, 0)

\* ------------------------------------------------------------------- state

VARIABLES
  variant,        \* the formulation object: its dynamic type
  pair,           \* particle state and pair geometry passed to every call
  req_i, req_j,   \* whether the caller passes non-null i-side / j-side outputs
  speccoeff_ij, speccoeff_ji,     \* the caller's coefficient buffers
  acc_i, acc_j, mod_acc_i, mod_acc_j,   \* the caller's accumulators
  limit,          \* the number of calls the evaluator issues for this pair
  pre,            \* the output buffers as they were before the last call
  hist,           \* the calls made so far: operation, coefficients used, error
  job,            \* per worker: the accumulators its call is handed
  accel,          \* per particle: the accumulator shared by the workers
  frame,          \* the storage holding each running call's local `fac`
  worker,         \* per worker: its position inside its call
  interleaved,    \* whether a worker has stepped while another was mid-call
  outparams,      \* a BeamToBeamPotentialRuntimeOutputParams object
  calls,          \* the calls made on it so far: operation and error
  problem,        \* Global::Problem: the input parameters and the problem type
  drt             \* electromagnetics_drt: its position, locals and the calls it made

\* the state of the concurrent pair evaluation
conc == <<job, accel, frame, worker, interleaved>>

\* the state of the SPH pair evaluation
sph == <<variant, pair, req_i, req_j, speccoeff_ij, speccoeff_ji,
         acc_i, acc_j, mod_acc_i, mod_acc_j, limit, pre, hist>>

\* the state outside the SPH momentum formulation
others == <<outparams, calls, problem, drt>>

vars == <<variant, pair, req_i, req_j, speccoeff_ij, speccoeff_ji,
          acc_i, acc_j, mod_acc_i, mod_acc_j, limit, pre, hist,
          job, accel, frame, worker, interleaved,
          outparams, calls, problem, drt>>

\* ---------------------------- BeamToBeamPotentialRuntimeOutputParams: object

NotInit == "init() has not been called, yet!"
NotInitAndSetup == "Call init() and setup() first!"

\* the RUNTIME VTK OUTPUT sublist of the beam potential section after input
\* validation: every parameter is present
ParamLists ==
  [INTERVAL_STEPS : {-1, 1}, EVERY_ITERATION : BOOLEAN, FORCES : BOOLEAN,
   MOMENTS : BOOLEAN, WRITE_FORCE_MOMENT_PER_ELEMENTPAIR : BOOLEAN, WRITE_UIDS : BOOLEAN]

\* the object as its constructor leaves it
Constructed ==
  [isinit_ |-> FALSE, issetup_ |-> FALSE, every_iteration_ |-> FALSE,
   output_interval_steps_ |-> -1, output_every_iteration_ |-> FALSE,
   output_forces_ |-> FALSE, output_moments_ |-> FALSE,
   write_force_moment_per_elepair_ |-> FALSE, output_uids_ |-> FALSE]
\* (every_iteration_ stands for visualization_parameters_.every_iteration_,
\* which the constructor takes from the visualization parameters factory)

\* no output-parameter object is in use
NoOutputParams ==
  /\ outparams = Constructed
  /\ calls = <<>>

\* ------------------------------------------ electromagnetics_drt: the driver

\* the driver is not running
NoDriver ==
  /\ problem = [problem_type |-> "none"]
  /\ drt = [pc |-> "idle"]

\* the parallel workers of the pair-interaction loop and the particles whose
\* accumulators they share
Workers == {"w1", "w2"}
Particles == {"p1", "p2", "p3", "p4"}

\* what a worker hands to its call: the particles whose accumulators acc_i and
\* acc_j point to, and whether each pointer is non-null
Jobs ==
  {t \in [tgt_i : Particles, tgt_j : Particles, req_i : BOOLEAN, req_j : BOOLEAN] :
     t.tgt_i # t.tgt_j}

\* a position inside a call: at its entry, before the load or before the store
\* of component k of one side's vec_add_scale, or returned
At(pc, side, k, tmp) == [pc |-> pc, side |-> side, k |-> k, tmp |-> tmp]
Idle == At("idle", "i", 1, R(0))
Entering == At("enter", "i", 1, R(0))
Returned == At("done", "j", 3, R(0))

Accel0 == [p \in Particles |-> Acc0_i]

\* a single evaluator: no parallel workers
NoWorkers ==
  /\ job = [w \in Workers |-> [tgt_i |-> "p1", tgt_j |-> "p2",
                                req_i |-> FALSE, req_j |-> FALSE]]
  /\ accel = Accel0
  /\ frame = [w \in Workers |-> R(0)]
  /\ worker = [w \in Workers |-> Idle]
  /\ interleaved = FALSE

Outputs ==
  [speccoeff_ij |-> speccoeff_ij, speccoeff_ji |-> speccoeff_ji,
   acc_i |-> acc_i, acc_j |-> acc_j,
   mod_acc_i |-> mod_acc_i, mod_acc_j |-> mod_acc_j]

\* the evaluator holds a formulation object and the buffers of one pair
Start(inputs, n) ==
  /\ variant \in Variants
  /\ \E in \in inputs :
       /\ pair = in[1]
       /\ speccoeff_ij = in[2][1]
       /\ speccoeff_ji = in[2][2]
  /\ limit = n
  /\ req_i \in BOOLEAN
  /\ req_j \in BOOLEAN
  /\ acc_i = Acc0_i
  /\ acc_j = Acc0_j
  /\ mod_acc_i = ModAcc0_i
  /\ mod_acc_j = ModAcc0_j
  /\ pre = Outputs
  /\ hist = <<>>
  /\ NoWorkers
  /\ NoOutputParams
  /\ NoDriver

\* every operation applied once to every input
Init == Start(PairInputs, 1)
\* sequences of calls on the same buffers
InitSeq == Start(SeqInputs, MaxCalls)
\* a coefficient call and a force term on the same pair
InitPairLoop == Start(PairLoopInputs, MaxCalls - 1)

\* the pointer the caller passes for a buffer
Arg(req, buf) == IF req THEN PtrTo(buf) ELSE NullPtr
\* the buffer after the call
After(buf, ptr) == IF NonNull(ptr) THEN ptr.at ELSE buf

Record(op, e) ==
  /\ pre' = Outputs
  /\ hist' = Append(hist, [op |-> op, sc_ij |-> speccoeff_ij,
                           sc_ji |-> speccoeff_ji, err |-> e])
  /\ UNCHANGED <<conc, others>>

specific_coefficient ==
  /\ Len(hist) < limit
  /\ LET r == CallSpecific(variant, pair, Arg(req_i, speccoeff_ij), Arg(req_j, speccoeff_ji))
     IN  /\ speccoeff_ij' = After(speccoeff_ij, r.out_i)
         /\ speccoeff_ji' = After(speccoeff_ji, r.out_j)
         /\ Record(OpSpecific, r.err)
  /\ UNCHANGED <<variant, pair, req_i, req_j, limit, acc_i, acc_j, mod_acc_i, mod_acc_j>>

\* mutant: shear_forces forms the relative velocity in place, in the caller's
\* vel_i, instead of in the local vel_ij
AccCall_scratch_in_vel_i(op) ==
  /\ Len(hist) < limit
  /\ LET r == Call(variant, op, pair, speccoeff_ij, speccoeff_ji,
                   Arg(req_i, acc_i), Arg(req_j, acc_j))
     IN  /\ acc_i' = After(acc_i, r.out_i)
         /\ acc_j' = After(acc_j, r.out_j)
         /\ Record(op, r.err)
  /\ pair' = IF op = OpShear
             THEN [pair EXCEPT !.vel_i = vec_sub(pair.vel_i, pair.vel_j)]
             ELSE pair
  /\ UNCHANGED <<variant, req_i, req_j, limit, speccoeff_ij, speccoeff_ji,
                 mod_acc_i, mod_acc_j>>

\* mutant: the object remembers setup() and its operations do nothing before
AccCall_requires_setup(op) ==
  /\ Len(hist) < limit
  /\ LET issetup == \E k \in 1..Len(hist) : hist[k].op = "setup"
         r == IF issetup
              THEN Call(variant, op, pair, speccoeff_ij, speccoeff_ji,
                        Arg(req_i, acc_i), Arg(req_j, acc_j))
              ELSE Ret(Arg(req_i, acc_i), Arg(req_j, acc_j))
     IN  /\ acc_i' = After(acc_i, r.out_i)
         /\ acc_j' = After(acc_j, r.out_j)
         /\ Record(op, r.err)
  /\ UNCHANGED <<variant, pair, req_i, req_j, limit, speccoeff_ij, speccoeff_ji,
                 mod_acc_i, mod_acc_j>>

\* an operation accumulating into acc_i / acc_j
AccCall(op) ==
  /\ Len(hist) < limit
  /\ LET r == Call(variant, op, pair, speccoeff_ij, speccoeff_ji,
                   Arg(req_i, acc_i), Arg(req_j, acc_j))
     IN  /\ acc_i' = After(acc_i, r.out_i)
         /\ acc_j' = After(acc_j, r.out_j)
         /\ Record(op, r.err)
  /\ UNCHANGED <<variant, pair, req_i, req_j, limit, speccoeff_ij, speccoeff_ji,
                 mod_acc_i, mod_acc_j>>

\* an operation accumulating into mod_acc_i / mod_acc_j
ModAccCall(op) ==
  /\ Len(hist) < limit
  /\ LET r == Call(variant, op, pair, speccoeff_ij, speccoeff_ji,
                   Arg(req_i, mod_acc_i), Arg(req_j, mod_acc_j))
     IN  /\ mod_acc_i' = After(mod_acc_i, r.out_i)
         /\ mod_acc_j' = After(mod_acc_j, r.out_j)
         /\ Record(op, r.err)
  /\ UNCHANGED <<variant, pair, req_i, req_j, limit, speccoeff_ij, speccoeff_ji,
                 acc_i, acc_j>>

\* mutant: the hook clears the coefficient buffers of the pair
Lifecycle_clearing(op) ==
  /\ Len(hist) < limit
  /\ speccoeff_ij' = R(0)
  /\ speccoeff_ji' = R(0)
  /\ Record(op, NoError)
  /\ UNCHANGED <<variant, pair, req_i, req_j, limit,
                 acc_i, acc_j, mod_acc_i, mod_acc_j>>

\* init() / setup(): "nothing to do"
Lifecycle(op) ==
  /\ Len(hist) < limit
  /\ Record(op, NoError)
  /\ UNCHANGED <<variant, pair, req_i, req_j, limit, speccoeff_ij, speccoeff_ji,
                 acc_i, acc_j, mod_acc_i, mod_acc_j>>

init == Lifecycle(OpInit)
setup == Lifecycle(OpSetup)
pressure_gradient == AccCall(OpPressure)
shear_forces == AccCall(OpShear)
standard_background_pressure == ModAccCall(OpStdBg)
generalized_background_pressure == ModAccCall(OpGenBg)
modified_velocity_contribution == AccCall(OpModVel)

Next ==
  \/ init
  \/ setup
  \/ specific_coefficient
  \/ pressure_gradient
  \/ shear_forces
  \/ standard_background_pressure
  \/ generalized_background_pressure
  \/ modified_velocity_contribution

Spec == Init /\ [][Next]_vars
SpecSeq == InitSeq /\ [][Next]_vars
SpecPairLoop == InitPairLoop /\ [][Next]_vars

\* --------------------------------------------- concurrent pair evaluation

\* the pair each worker evaluates and the coefficients it supplies
WorkerPair(w) ==
  IF w = "w1" THEN BasePair
  ELSE [BasePair EXCEPT !.press_i = R(3), !.e_ij = <<Q(3, 5), Q(-4, 5), R(0)>>]
WorkerCoeffs(w) == IF w = "w1" THEN BaseCoeffs ELSE <<R(2), R(-1)>>

\* the formulation object is shared; every worker has its own pair and the
\* pair evaluator hands worker w1 the accumulators of particles p1 and p2
InitConc ==
  /\ variant \in Variants
  /\ pair = BasePair
  /\ speccoeff_ij = BaseCoeffs[1]
  /\ speccoeff_ji = BaseCoeffs[2]
  /\ limit = 0
  /\ req_i = TRUE
  /\ req_j = TRUE
  /\ acc_i = Acc0_i
  /\ acc_j = Acc0_j
  /\ mod_acc_i = ModAcc0_i
  /\ mod_acc_j = ModAcc0_j
  /\ pre = Outputs
  /\ hist = <<>>
  /\ job \in {f \in [Workers -> Jobs] : f["w1"].tgt_i = "p1" /\ f["w1"].tgt_j = "p2"}
  /\ accel = Accel0
  /\ frame = [w \in Workers |-> R(0)]
  /\ worker = [w \in Workers |-> Entering]
  /\ interleaved = FALSE
  /\ NoOutputParams
  /\ NoDriver

\* const double fac = ...  of pressure_gradient, by the dynamic type
pressure_fac(v, a) ==
  IF v = "Monaghan" THEN Monaghan_pressure_fac(a) ELSE Adami_pressure_fac(a)

\* mutant: fac is kept in a member of the shared formulation object
FacSlot_member(w) == "w1"

\* fac is an automatic local: every running call has its own
FacSlot(w) == w

Target(w, side) == IF side = "i" THEN job[w].tgt_i ELSE job[w].tgt_j
\* the factor passed to vec_add_scale: -speccoeff_ij * fac, speccoeff_ji * fac
Scale(w, side) ==
  IF side = "i"
  THEN Mul(Neg(WorkerCoeffs(w)[1]), frame[FacSlot(w)])
  ELSE Mul(WorkerCoeffs(w)[2], frame[FacSlot(w)])

\* if (acc_i) ...; if (acc_j) ...; return
AfterSideI(w) == IF job[w].req_j THEN At("load", "j", 1, R(0)) ELSE Returned
AfterEntry(w) == IF job[w].req_i THEN At("load", "i", 1, R(0)) ELSE AfterSideI(w)

MidCall(w) == worker[w].pc \in {"load", "store"}
Step(w) == interleaved' = (interleaved \/ \E u \in Workers \ {w} : MidCall(u))

\* worker w enters pressure_gradient and evaluates fac
enter(w) ==
  /\ worker[w].pc = "enter"
  /\ frame' = [frame EXCEPT ![FacSlot(w)] = pressure_fac(variant, WorkerPair(w))]
  /\ worker' = [worker EXCEPT ![w] = AfterEntry(w)]
  /\ Step(w)
  /\ UNCHANGED <<variant, pair, req_i, req_j, speccoeff_ij, speccoeff_ji,
                 acc_i, acc_j, mod_acc_i, mod_acc_j, limit, pre, hist, job, accel>>
  /\ UNCHANGED others

\* c[k] += fac * a[k] of vec_add_scale: the read of c[k]
load(w) ==
  /\ worker[w].pc = "load"
  /\ worker' = [worker EXCEPT ![w] =
                  At("store", worker[w].side, worker[w].k,
                     accel[Target(w, worker[w].side)][worker[w].k])]
  /\ Step(w)
  /\ UNCHANGED <<variant, pair, req_i, req_j, speccoeff_ij, speccoeff_ji,
                 acc_i, acc_j, mod_acc_i, mod_acc_j, limit, pre, hist, job, accel, frame>>
  /\ UNCHANGED others

\* c[k] += fac * a[k] of vec_add_scale: the write of c[k]
store(w) ==
  /\ worker[w].pc = "store"
  /\ LET side == worker[w].side
         k == worker[w].k
     IN  /\ accel' = [accel EXCEPT ![Target(w, side)][k] =
                        Add(worker[w].tmp, Mul(Scale(w, side), WorkerPair(w).e_ij[k]))]
         /\ worker' = [worker EXCEPT ![w] =
                         IF k < 3 THEN At("load", side, k + 1, R(0))
                         ELSE IF side = "i" THEN AfterSideI(w)
                         ELSE Returned]
  /\ Step(w)
  /\ UNCHANGED <<variant, pair, req_i, req_j, speccoeff_ij, speccoeff_ji,
                 acc_i, acc_j, mod_acc_i, mod_acc_j, limit, pre, hist, job, frame>>
  /\ UNCHANGED others

NextConc ==
  \/ \E w \in Workers : enter(w)
  \/ \E w \in Workers : load(w)
  \/ \E w \in Workers : store(w)

SpecConc == InitConc /\ [][NextConc]_vars

\* --------------------------- BeamToBeamPotentialRuntimeOutputParams: calls

\* no pair is being evaluated
NoPair ==
  /\ variant = "Monaghan"
  /\ pair = BasePair
  /\ speccoeff_ij = BaseCoeffs[1]
  /\ speccoeff_ji = BaseCoeffs[2]
  /\ limit = 0
  /\ req_i = FALSE
  /\ req_j = FALSE
  /\ acc_i = Acc0_i
  /\ acc_j = Acc0_j
  /\ mod_acc_i = ModAcc0_i
  /\ mod_acc_j = ModAcc0_j
  /\ pre = Outputs
  /\ hist = <<>>

\* what a member function leaves behind: the object and the raised error
Done(obj) == [obj |-> obj, err |-> NoError]
Failed(obj, e) == [obj |-> obj, err |-> e]

\* mutant: the wrong flag is tested
throw_error_if_not_init_wrong_flag(obj) == IF ~obj.issetup_ THEN NotInit ELSE NoError

\* if (!is_init()) FOUR_C_THROW("init() has not been called, yet!");
throw_error_if_not_init(obj) == IF ~obj.isinit_ THEN NotInit ELSE NoError

\* if (!is_init() or !is_setup()) FOUR_C_THROW("Call init() and setup() first!");
throw_error_if_not_init_and_setup(obj) ==
  IF ~obj.isinit_ \/ ~obj.issetup_ THEN NotInitAndSetup ELSE NoError

\* mutant: init() forgets to invalidate an earlier setup()
OutputParams_init_keeps_setup(obj, pl) ==
  Done([obj EXCEPT
          !.output_interval_steps_ = pl.INTERVAL_STEPS,
          !.output_every_iteration_ = pl.EVERY_ITERATION,
          !.every_iteration_ = pl.EVERY_ITERATION,
          !.output_forces_ = pl.FORCES,
          !.output_moments_ = pl.MOMENTS,
          !.write_force_moment_per_elepair_ = pl.WRITE_FORCE_MOMENT_PER_ELEMENTPAIR,
          !.output_uids_ = pl.WRITE_UIDS,
          !.isinit_ = TRUE])

\* init(beam_contact_visualization_output_paramslist)
OutputParams_init(obj, pl) ==
  Done([obj EXCEPT
          !.issetup_ = FALSE,
          !.output_interval_steps_ = pl.INTERVAL_STEPS,
          !.output_every_iteration_ = pl.EVERY_ITERATION,
          !.every_iteration_ = pl.EVERY_ITERATION,
          !.output_forces_ = pl.FORCES,
          !.output_moments_ = pl.MOMENTS,
          !.write_force_moment_per_elepair_ = pl.WRITE_FORCE_MOMENT_PER_ELEMENTPAIR,
          !.output_uids_ = pl.WRITE_UIDS,
          !.isinit_ = TRUE])

\* mutant: setup() does not check that init() was called
OutputParams_setup_unchecked(obj) == Done([obj EXCEPT !.issetup_ = TRUE])

\* setup()
OutputParams_setup(obj) ==
  IF throw_error_if_not_init(obj) # NoError
  THEN Failed(obj, throw_error_if_not_init(obj))
  ELSE Done([obj EXCEPT !.issetup_ = TRUE])

\* a member function called on the object: its effect and the record of it
MemberCall(op, r) ==
  /\ Len(calls) < MaxCalls + 1
  /\ outparams' = r.obj
  /\ calls' = Append(calls, [op |-> op, err |-> r.err])
  /\ UNCHANGED <<sph, conc, problem, drt>>

call_init == \E pl \in ParamLists : MemberCall("init", OutputParams_init(outparams, pl))
call_setup == MemberCall("setup", OutputParams_setup(outparams))
call_throw_error_if_not_init_and_setup ==
  MemberCall("throw_error_if_not_init_and_setup",
             Failed(outparams, throw_error_if_not_init_and_setup(outparams)))

InitOutputParams ==
  /\ NoPair
  /\ NoWorkers
  /\ NoDriver
  /\ outparams \in {[Constructed EXCEPT !.every_iteration_ = b] : b \in BOOLEAN}
  /\ calls = <<>>

NextOutputParams ==
  \/ call_init
  \/ call_setup
  \/ call_throw_error_if_not_init_and_setup

SpecOutputParams == InitOutputParams /\ [][NextOutputParams]_vars

\* ---------------------------------------- electromagnetics_drt: the program

\* the values of TIMEINT that create a time integrator, the values whose
\* case throws, and a value outside the enumeration for the default case
BDF == {"elemag_bdf1", "elemag_bdf2", "elemag_bdf4"}
NotImplemented ==
  {"elemag_ost", "elemag_genAlpha", "elemag_explicit_euler", "elemag_rk",
   "elemag_cn"}
DynamicTypes == BDF \cup NotImplemented \cup {"unknown"}

\* the values of INITIALFIELD that solve a scatra problem first
ScatraFields == {"initfield_scatra", "initfield_scatra_hdg"}
InitialFields == ScatraFields \cup {"initfield_field_by_function"}

VelocityFields == {"velocity_zero", "velocity_function"}

\* what the driver reads from Global::Problem and from the discretizations
Problems ==
  [n_dim : {2, 3},
   elemag_is_hdg : BOOLEAN,
   LINEAR_SOLVER : {-1, 1},
   TIMEINT : DynamicTypes,
   restart : {0, 1},
   INITIALFIELD : InitialFields,
   VELOCITYFIELD : VelocityFields,
   num_global_nodes : {0, 1},
   add_dof_set : {1, 2},
   CALCERR : BOOLEAN,
   problem_type : {"elemag"}]

\* the driver at its first statement
Entry ==
  [pc |-> "n_dim", elemagalgo |-> "nullptr", ishdg |-> FALSE,
   events |-> <<>>, err |-> ""]

OnlyIn3D ==
  "The implementation of electromagnetic propagation only supports 3D problems."
CastFailed ==
  "Failed to cast Core::FE::Discretization to Core::FE::DiscretizationHDG."
NoLinearSolver ==
  "There is not any linear solver defined for electromagnetic problem."
NoVelocityField ==
  "Does not make sense to have a velocity field to initialize the electric potential field."
NoElements == "No elements in the ---TRANSPORT ELEMENTS section"
IllegalDofsets == "Scatra discretization has illegal number of dofsets!"

\* FOUR_C_THROW leaves the driver
Thrown(msg) == [drt EXCEPT !.pc = "thrown", !.err = msg]

\* the driver moves on to the statement l
Goto(d, l) == [d EXCEPT !.pc = l]

\* a member function of obj is called, under the current problem type
Event(d, obj, f) ==
  [d EXCEPT !.events =
     Append(@, [obj |-> obj, call |-> f,
                problem_type |-> problem.problem_type])]

\* a statement of the driver that leaves the problem type alone
Stmt(l, d) ==
  /\ drt.pc = l
  /\ drt' = d
  /\ UNCHANGED <<sph, conc, outparams, calls, problem>>

\* problem->set_problem_type(t)
SetProblemType(l, t, next) ==
  /\ drt.pc = l
  /\ problem' = [problem EXCEPT !.problem_type = t]
  /\ drt' = Goto(drt, next)
  /\ UNCHANGED <<sph, conc, outparams, calls>>

check_n_dim ==
  Stmt("n_dim",
       IF problem.n_dim # 3 THEN Thrown(OnlyIn3D) ELSE Goto(drt, "get_dis"))

cast_elemagdishdg ==
  Stmt("get_dis",
       IF ~problem.elemag_is_hdg THEN Thrown(CastFailed)
       ELSE Goto(drt, "LINEAR_SOLVER"))

check_linear_solver ==
  Stmt("LINEAR_SOLVER",
       IF problem.LINEAR_SOLVER = -1 THEN Thrown(NoLinearSolver)
       ELSE Goto(drt, "TIMEINT"))

\* the switch on elemagdyna: the object it creates, or the message it throws
TimeIntegrator_with_ost(elemagdyna) ==
  CASE elemagdyna \in BDF \cup {"elemag_ost"} ->
         [algo |-> "ElemagTimeInt", err |-> ""]
    [] elemagdyna = "elemag_genAlpha" ->
         [algo |-> "nullptr",
          err |-> "Generalized-alpha method not yet implemented."]
    [] elemagdyna = "elemag_explicit_euler" ->
         [algo |-> "nullptr",
          err |-> "Explicit euler method not yet implemented."]
    [] elemagdyna = "elemag_rk" ->
         [algo |-> "nullptr",
          err |-> "Runge-Kutta methods not yet implemented."]
    [] elemagdyna = "elemag_cn" ->
         [algo |-> "nullptr",
          err |-> "Crank-Nicolson method not yet implemented."]
    [] OTHER ->
         [algo |-> "nullptr",
          err |-> "Unknown time-integration scheme for problem type electromagnetics"]

TimeIntegrator(elemagdyna) ==
  CASE elemagdyna = "elemag_ost" ->
         [algo |-> "nullptr", err |-> "One step theta not yet implemented."]
    [] elemagdyna \in BDF ->
         [algo |-> "ElemagTimeInt", err |-> ""]
    [] elemagdyna = "elemag_genAlpha" ->
         [algo |-> "nullptr",
          err |-> "Generalized-alpha method not yet implemented."]
    [] elemagdyna = "elemag_explicit_euler" ->
         [algo |-> "nullptr",
          err |-> "Explicit euler method not yet implemented."]
    [] elemagdyna = "elemag_rk" ->
         [algo |-> "nullptr",
          err |-> "Runge-Kutta methods not yet implemented."]
    [] elemagdyna = "elemag_cn" ->
         [algo |-> "nullptr",
          err |-> "Crank-Nicolson method not yet implemented."]
    [] OTHER ->
         [algo |-> "nullptr",
          err |-> "Unknown time-integration scheme for problem type electromagnetics"]

create_elemagalgo ==
  LET t == TimeIntegrator(problem.TIMEINT) IN
  Stmt("TIMEINT",
       IF t.err # "" THEN Thrown(t.err)
       ELSE Goto([drt EXCEPT !.elemagalgo = t.algo], "init"))

elemagalgo_init ==
  Stmt("init", Goto(Event(drt, "elemagalgo", "init"), "restart"))

\* if (restart) elemagalgo->read_restart(restart);
read_restart_without_else ==
  /\ problem.restart # 0
  /\ Stmt("restart",
          Goto(Event(drt, "elemagalgo", "read_restart"), "INITIALFIELD"))

read_restart ==
  /\ problem.restart # 0
  /\ Stmt("restart",
          Goto(Event(drt, "elemagalgo", "read_restart"), "print"))

\* else { ... bool ishdg = false;
no_restart ==
  /\ problem.restart = 0
  /\ Stmt("restart", Goto([drt EXCEPT !.ishdg = FALSE], "INITIALFIELD"))

\* case initfield_scatra_hdg (falls through) and case initfield_scatra, up
\* to the creation and cloning of the scatra discretization
create_scatradis ==
  /\ problem.INITIALFIELD \in ScatraFields
  /\ Stmt("INITIALFIELD",
          Goto([drt EXCEPT
                  !.ishdg = (problem.INITIALFIELD = "initfield_scatra_hdg")],
               "set_scatra"))

\* the default case of the switch on INITIALFIELD
set_initial_field ==
  /\ problem.INITIALFIELD \notin ScatraFields
  /\ Stmt("INITIALFIELD",
          Goto(Event(drt, "elemagalgo", "set_initial_field"), "print"))

set_problem_type_scatra == SetProblemType("set_scatra", "scatra", "VELOCITYFIELD")

switch_veltype ==
  Stmt("VELOCITYFIELD",
       IF problem.VELOCITYFIELD = "velocity_zero"
       THEN Goto(drt, "num_global_nodes")
       ELSE Thrown(NoVelocityField))

check_num_global_nodes ==
  Stmt("num_global_nodes",
       IF problem.num_global_nodes = 0 THEN Thrown(NoElements)
       ELSE Goto(drt, "add_dof_set"))

check_add_dof_set ==
  Stmt("add_dof_set",
       IF problem.add_dof_set # 1 THEN Thrown(IllegalDofsets)
       ELSE Goto(drt, "scatraalgo"))

\* the stationary scatra problem is set up and solved
scatraalgo_time_loop ==
  Stmt("scatraalgo",
       Goto(Event(Event(Event(drt, "scatraalgo", "init"),
                        "scatraalgo", "setup"),
                  "scatraalgo", "time_loop"),
            "set_initial_electric_field"))

set_initial_electric_field ==
  Stmt("set_initial_electric_field",
       Goto(Event(drt, "elemagalgo", "set_initial_electric_field"),
            "set_elemag"))

\* "Once work is done change back to problem elemag"
set_problem_type_elemag_skipped ==
  SetProblemType("set_elemag", problem.problem_type, "print")

set_problem_type_elemag == SetProblemType("set_elemag", "elemag", "print")

print_information_to_screen ==
  Stmt("print",
       Goto(Event(drt, "elemagalgo", "print_information_to_screen"),
            "integrate"))

integrate ==
  Stmt("integrate", Goto(Event(drt, "elemagalgo", "integrate"), "CALCERR"))

calc_error ==
  Stmt("CALCERR",
       IF problem.CALCERR
       THEN Goto(Event(Event(drt, "elemagalgo", "compute_error"),
                       "elemagalgo", "print_errors"),
                 "test")
       ELSE Goto(drt, "test"))

field_test ==
  Stmt("test",
       Goto(Event(Event(drt, "elemagalgo", "create_field_test"),
                  "problem", "test_all"),
            "return"))

InitDrt ==
  /\ NoPair
  /\ NoWorkers
  /\ NoOutputParams
  /\ problem \in Problems
  /\ drt = Entry

NextDrt ==
  \/ check_n_dim
  \/ cast_elemagdishdg
  \/ check_linear_solver
  \/ create_elemagalgo
  \/ elemagalgo_init
  \/ read_restart
  \/ no_restart
  \/ create_scatradis
  \/ set_initial_field
  \/ set_problem_type_scatra
  \/ switch_veltype
  \/ check_num_global_nodes
  \/ check_add_dof_set
  \/ scatraalgo_time_loop
  \/ set_initial_electric_field
  \/ set_problem_type_elemag
  \/ print_information_to_screen
  \/ integrate
  \/ calc_error
  \/ field_test

SpecDrt == InitDrt /\ [][NextDrt]_vars

\* ------------------------------------------------- vocabulary of the claims

Called == Len(hist) > 0
Last == hist[Len(hist)]
LastIs(v, op) == Called /\ variant = v /\ Last.op = op

\* what the last call added to each accumulator
Added_i == VSub(acc_i, pre.acc_i)
Added_j == VSub(acc_j, pre.acc_j)
ModAdded_i == VSub(mod_acc_i, pre.mod_acc_i)
ModAdded_j == VSub(mod_acc_j, pre.mod_acc_j)

\* x < y and x >= y on finite doubles
Less(x, y) == Lt0(Sub(x, y))
AtLeast(x, y) == ~IsNF(x) /\ ~IsNF(y) /\ ~Less(x, y)

\* the i-side / j-side buffer an operation writes, now and before the call
OutNow(op, side) ==
  IF op = OpSpecific THEN (IF side = "i" THEN speccoeff_ij ELSE speccoeff_ji)
  ELSE IF op \in AccOps THEN (IF side = "i" THEN acc_i ELSE acc_j)
  ELSE (IF side = "i" THEN mod_acc_i ELSE mod_acc_j)
OutBefore(op, side) ==
  IF op = OpSpecific THEN (IF side = "i" THEN pre.speccoeff_ij ELSE pre.speccoeff_ji)
  ELSE IF op \in AccOps THEN (IF side = "i" THEN pre.acc_i ELSE pre.acc_j)
  ELSE (IF side = "i" THEN pre.mod_acc_i ELSE pre.mod_acc_j)

\* the last call made again on the buffers as they were, with the output
\* pointers chosen by ri, rj
Again(ri, rj) ==
  IF Last.op \in LifecycleOps
  THEN Ret(Arg(ri, OutBefore(Last.op, "i")), Arg(rj, OutBefore(Last.op, "j")))
  ELSE IF Last.op = OpSpecific
  THEN CallSpecific(variant, pair, Arg(ri, pre.speccoeff_ij), Arg(rj, pre.speccoeff_ji))
  ELSE Call(variant, Last.op, pair, Last.sc_ij, Last.sc_ji,
            Arg(ri, OutBefore(Last.op, "i")), Arg(rj, OutBefore(Last.op, "j")))

\* C1: a null i-side output is not written, raises no error of its own, and
\* leaves in the j-side output the value the call with a non-null i-side
\* output produces; the same with i and j exchanged; for all six operations
\* of both variants.
NullPointerInvariant ==
  Called =>
    /\ ~req_i => /\ acc_i = pre.acc_i
                 /\ mod_acc_i = pre.mod_acc_i
                 /\ speccoeff_ij = pre.speccoeff_ij
    /\ ~req_j => /\ acc_j = pre.acc_j
                 /\ mod_acc_j = pre.mod_acc_j
                 /\ speccoeff_ji = pre.speccoeff_ji
    /\ ~req_i => /\ Last.err = Again(TRUE, req_j).err
                 /\ req_j => OutNow(Last.op, "j") = Again(TRUE, req_j).out_j.at
    /\ ~req_j => /\ Last.err = Again(req_i, TRUE).err
                 /\ req_i => OutNow(Last.op, "i") = Again(req_i, TRUE).out_i.at

\* C1 witness: shear_forces with a null acc_i has added into acc_j
NullPointerWitness ==
  /\ Called /\ Last.op = OpShear /\ Last.err = NoError
  /\ ~req_i /\ req_j
  /\ acc_j # pre.acc_j

\* what one recorded call contributes to the four accumulators: the call made
\* on zeroed accumulators, so that nothing of the prior content enters
Contribution(e) ==
  LET r == IF e.op \in ForceOps
           THEN Call(variant, e.op, pair, e.sc_ij, e.sc_ji,
                     Arg(req_i, ZeroVec), Arg(req_j, ZeroVec))
           ELSE Ret(NullPtr, NullPtr)
      ci == After(ZeroVec, r.out_i)
      cj == After(ZeroVec, r.out_j)
  IN  [acc_i |-> IF e.op \in AccOps THEN ci ELSE ZeroVec,
       acc_j |-> IF e.op \in AccOps THEN cj ELSE ZeroVec,
       mod_acc_i |-> IF e.op \in ModAccOps THEN ci ELSE ZeroVec,
       mod_acc_j |-> IF e.op \in ModAccOps THEN cj ELSE ZeroVec]

\* the contributions of the calls of h summed from the last call backwards
RECURSIVE SumOfContributions(_)
SumOfContributions(h) ==
  IF h = <<>>
  THEN [acc_i |-> ZeroVec, acc_j |-> ZeroVec, mod_acc_i |-> ZeroVec, mod_acc_j |-> ZeroVec]
  ELSE LET c == Contribution(h[Len(h)])
           rest == SumOfContributions(SubSeq(h, 1, Len(h) - 1))
       IN  [acc_i |-> VAdd(c.acc_i, rest.acc_i), acc_j |-> VAdd(c.acc_j, rest.acc_j),
            mod_acc_i |-> VAdd(c.mod_acc_i, rest.mod_acc_i),
            mod_acc_j |-> VAdd(c.mod_acc_j, rest.mod_acc_j)]

\* C2: every force operation adds into its accumulator: after a call the
\* accumulator is its prior value plus a contribution that does not depend on
\* the prior value, and after any sequence of calls it is the initial value
\* plus the sum of the contributions, in whatever order they are summed.
AccumulationInvariant ==
  /\ Called =>
       LET c == Contribution(Last)
       IN  /\ acc_i = VAdd(pre.acc_i, c.acc_i)
           /\ acc_j = VAdd(pre.acc_j, c.acc_j)
           /\ mod_acc_i = VAdd(pre.mod_acc_i, c.mod_acc_i)
           /\ mod_acc_j = VAdd(pre.mod_acc_j, c.mod_acc_j)
  /\ LET t == SumOfContributions(hist)
     IN  /\ acc_i = VAdd(Acc0_i, t.acc_i)
         /\ acc_j = VAdd(Acc0_j, t.acc_j)
         /\ mod_acc_i = VAdd(ModAcc0_i, t.mod_acc_i)
         /\ mod_acc_j = VAdd(ModAcc0_j, t.mod_acc_j)

\* C2 witness: pressure_gradient, then shear_forces, both adding into a
\* requested acc_i that already held a non-initial value
AccumulationWitness ==
  /\ Len(hist) = 2
  /\ hist[1].op = OpPressure /\ hist[2].op = OpShear /\ hist[2].err = NoError
  /\ req_i
  /\ pre.acc_i # Acc0_i
  /\ acc_i # pre.acc_i

\* the diffusion-coefficient test as the claims state it
ClaimScaledViscosity ==
  IF Gt0(pair.visc_i) /\ Gt0(pair.visc_j)
  THEN Div(Mul(R(2), Mul(pair.visc_i, pair.visc_j)),
           Mul(R(3), Add(pair.visc_i, pair.visc_j)))
  ELSE R(0)
ClaimBulkViscosity ==
  IF Gt0(pair.bulk_visc_i) /\ Gt0(pair.bulk_visc_j)
  THEN Div(Mul(R(2), Mul(pair.bulk_visc_i, pair.bulk_visc_j)),
           Add(pair.bulk_visc_i, pair.bulk_visc_j))
  ELSE R(0)
ClaimDiffusionNegative == Less(Mul(R(5), ClaimScaledViscosity), ClaimBulkViscosity)
AllViscositiesPositive ==
  /\ Gt0(pair.visc_i) /\ Gt0(pair.visc_j)
  /\ Gt0(pair.bulk_visc_i) /\ Gt0(pair.bulk_visc_j)

\* C3: Monaghan shear_forces raises the negative-diffusion error for every
\* input with four positive viscosities and 5*scaled_viscosity < bulk_viscosity,
\* and every call that completes used 5*scaled_viscosity - bulk_viscosity >= 0.
NegativeDiffusionRejected ==
  LastIs("Monaghan", OpShear) =>
    /\ (AllViscositiesPositive /\ ClaimDiffusionNegative) => Last.err = NegDiffusion
    /\ Last.err = NoError =>
         AtLeast(Sub(Mul(R(5), ClaimScaledViscosity), ClaimBulkViscosity), R(0))

\* C3 witness: a Monaghan shear_forces call with four positive viscosities
\* has failed
NegativeDiffusionWitness ==
  /\ LastIs("Monaghan", OpShear)
  /\ AllViscositiesPositive
  /\ Last.err = NegDiffusion

ShearLeftUnchanged ==
  /\ Last.err = NoError
  /\ acc_i = pre.acc_i
  /\ acc_j = pre.acc_j

BothViscositiesZero == IsZero(pair.visc_i) /\ IsZero(pair.visc_j)
SomeViscosityNonPositive == ~Gt0(pair.visc_i) \/ ~Gt0(pair.visc_j)
BothBulkPositive == Gt0(pair.bulk_visc_i) /\ Gt0(pair.bulk_visc_j)

\* C4 as stated: with visc_i = visc_j = 0 (Adami: with either viscosity
\* <= 0) shear_forces completes and leaves acc_i and acc_j unchanged for
\* every value of the remaining inputs.
ZeroViscosityAlwaysNoOp ==
  (Called /\ Last.op = OpShear) =>
    /\ BothViscositiesZero => ShearLeftUnchanged
    /\ (variant = "Adami" /\ SomeViscosityNonPositive) => ShearLeftUnchanged

\* C4 amended: Adami shear_forces with either viscosity <= 0 completes and
\* leaves acc_i and acc_j unchanged for every value of the remaining inputs;
\* Monaghan shear_forces with visc_i = visc_j = 0 completes exactly when the
\* bulk viscosities are not both positive (otherwise it fails with the
\* negative-diffusion error), and it leaves acc_i and acc_j unchanged when it
\* fails or when dens_i*dens_j*abs_rij is not zero.
ZeroViscosityNoOp ==
  (Called /\ Last.op = OpShear) =>
    /\ (variant = "Adami" /\ SomeViscosityNonPositive) => ShearLeftUnchanged
    /\ (variant = "Monaghan" /\ BothViscositiesZero) =>
         /\ BothBulkPositive => Last.err = NegDiffusion
         /\ ~BothBulkPositive => Last.err = NoError
         /\ (Last.err = NegDiffusion
             \/ ~IsZero(Mul(Mul(pair.dens_i, pair.dens_j), pair.abs_rij)))
              => (acc_i = pre.acc_i /\ acc_j = pre.acc_j)

\* C4 witness: Monaghan shear_forces with both viscosities zero, no bulk
\* viscosity and both accumulators requested has completed
ZeroViscosityWitness ==
  /\ LastIs("Monaghan", OpShear)
  /\ BothViscositiesZero /\ ~BothBulkPositive
  /\ ~IsZero(pair.abs_rij)
  /\ req_i /\ req_j
  /\ Last.err = NoError

\* the term one side adds to A_ij_e_ij, as the claims state it:
\* w * ((mod_vel - vel) . e_ij) * vel, w = 1/dens (Monaghan), 0.5*dens (Adami)
ClaimSideTerm(mod_vel, vel, dens) ==
  IF mod_vel.null THEN ZeroVec
  ELSE LET w == IF variant = "Monaghan" THEN Div(R(1), dens) ELSE Mul(Q(1, 2), dens)
       IN  VScale(Mul(w, vec_dot(VSub(mod_vel.at, vel), pair.e_ij)), vel)

UnmodifiedOnSideI == ~pair.mod_vel_i.null /\ pair.mod_vel_i.at = pair.vel_i
UnmodifiedOnSideJ == ~pair.mod_vel_j.null /\ pair.mod_vel_j.at = pair.vel_j

\* C5 as stated: modified_velocity_contribution with mod_vel_i equal to vel_i
\* contributes exactly zero to acc_i whatever mod_vel_j is.
UnmodifiedVelocityAddsNothing ==
  (Called /\ Last.op = OpModVel /\ UnmodifiedOnSideI) => acc_i = pre.acc_i

\* C5 amended: with mod_vel_i equal to vel_i side i puts nothing into
\* A_ij_e_ij, so the call adds to acc_i exactly speccoeff_ij times the term
\* of side j alone; this is zero whenever mod_vel_j is null or equal to vel_j.
UnmodifiedVelocityAddsSideJOnly ==
  (Called /\ Last.op = OpModVel /\ UnmodifiedOnSideI /\ req_i) =>
    /\ Added_i = VScale(Last.sc_ij,
                        ClaimSideTerm(pair.mod_vel_j, pair.vel_j, pair.dens_j))
    /\ (pair.mod_vel_j.null \/ UnmodifiedOnSideJ) => acc_i = pre.acc_i

\* C5 witness: mod_vel_i equals vel_i, mod_vel_j differs from vel_j, and the
\* call has changed acc_i
UnmodifiedVelocityWitness ==
  /\ Called /\ Last.op = OpModVel /\ UnmodifiedOnSideI /\ req_i
  /\ ~pair.mod_vel_j.null /\ ~UnmodifiedOnSideJ
  /\ acc_i # pre.acc_i

\* the pair seen from the other particle: every i-quantity exchanged with the
\* j-quantity and e_ij negated
SwapPair(a) ==
  [a EXCEPT !.dens_i = a.dens_j, !.dens_j = a.dens_i,
            !.mass_i = a.mass_j, !.mass_j = a.mass_i,
            !.press_i = a.press_j, !.press_j = a.press_i,
            !.vel_i = a.vel_j, !.vel_j = a.vel_i,
            !.visc_i = a.visc_j, !.visc_j = a.visc_i,
            !.bulk_visc_i = a.bulk_visc_j, !.bulk_visc_j = a.bulk_visc_i,
            !.dWdrij = a.dWdrji, !.dWdrji = a.dWdrij,
            !.bg_press_i = a.bg_press_j, !.bg_press_j = a.bg_press_i,
            !.mod_bg_press_i = a.mod_bg_press_j, !.mod_bg_press_j = a.mod_bg_press_i,
            !.mod_dWdrij = a.mod_dWdrji, !.mod_dWdrji = a.mod_dWdrij,
            !.mod_vel_i = a.mod_vel_j, !.mod_vel_j = a.mod_vel_i,
            !.e_ij = VNeg(a.e_ij)]

\* what pressure_gradient called for the pair (j, i) adds to its acc_j, the
\* accumulator of particle i
SwappedPressureAdded_j ==
  Call(variant, OpPressure, SwapPair(pair), Last.sc_ji, Last.sc_ij,
       PtrTo(ZeroVec), PtrTo(ZeroVec)).out_j.at

\* C6 as stated: the contribution of pressure_gradient to acc_i for the pair
\* (i, j) is the negation of its contribution to acc_j for the swapped pair
\* (j, i): acc_i(i,j) == -acc_j(j,i).
PressureSwapNegates ==
  (Called /\ Last.op = OpPressure /\ req_i) =>
    Added_i = VNeg(SwappedPressureAdded_j)

\* C6 amended: the contribution of pressure_gradient to acc_i for the pair
\* (i, j) equals its contribution to acc_j for the swapped pair (j, i):
\* acc_i(i,j) == acc_j(j,i); both are the force on particle i.
PressureSwapAgrees ==
  (Called /\ Last.op = OpPressure /\ req_i) =>
    Added_i = SwappedPressureAdded_j

\* C6 witness: pressure_gradient has added a non-zero vector to acc_i for a
\* pair whose two particles differ in density and pressure
PressureSwapWitness ==
  /\ Called /\ Last.op = OpPressure /\ req_i
  /\ pair.dens_i # pair.dens_j /\ pair.press_i # pair.press_j
  /\ Last.sc_ij # Last.sc_ji
  /\ Added_i # ZeroVec

\* the symmetrisation factor of pressure_gradient
PressureFac(a) ==
  IF variant = "Monaghan" THEN Monaghan_pressure_fac(a) ELSE Adami_pressure_fac(a)

\* the (density, pressure) states of i and j exchanged
ExchangeStates(a) ==
  [a EXCEPT !.dens_i = a.dens_j, !.dens_j = a.dens_i,
            !.press_i = a.press_j, !.press_j = a.press_i]

\* C7: one pressure_gradient call adds -speccoeff_ij*fac*e_ij to acc_i and
\* +speccoeff_ji*fac*e_ij to acc_j with the same factor fac, fac is unchanged
\* when the (density, pressure) states of i and j are exchanged, and with
\* speccoeff_ij == speccoeff_ji the two additions sum to the zero vector.
PressureActionReaction ==
  (Called /\ Last.op = OpPressure) =>
    LET fac == PressureFac(pair)
    IN  /\ req_i => Added_i = VScale(Mul(Neg(Last.sc_ij), fac), pair.e_ij)
        /\ req_j => Added_j = VScale(Mul(Last.sc_ji, fac), pair.e_ij)
        /\ fac = PressureFac(ExchangeStates(pair))
        /\ (req_i /\ req_j /\ Last.sc_ij = Last.sc_ji) =>
             /\ Added_i = VNeg(Added_j)
             /\ VAdd(Added_i, Added_j) = ZeroVec

\* C7 witness: pressure_gradient with equal coefficients has added opposite
\* non-zero vectors to acc_i and acc_j
PressureActionReactionWitness ==
  /\ Called /\ Last.op = OpPressure /\ req_i /\ req_j
  /\ Last.sc_ij = Last.sc_ji
  /\ pair.dens_i # pair.dens_j
  /\ Added_i # ZeroVec
  /\ Added_i = VNeg(Added_j)

\* C8: Monaghan specific_coefficient overwrites speccoeff_ij with
\* dWdrij * mass_j and speccoeff_ji with dWdrji * mass_i, whatever the
\* densities and the prior buffer contents; dens = mass = 1 and
\* dWdrij = dWdrji = -1 yield speccoeff_ij = speccoeff_ji = -1.
MonaghanSpecificCoefficient ==
  LastIs("Monaghan", OpSpecific) =>
    /\ Last.err = NoError
    /\ req_i => speccoeff_ij = Mul(pair.dWdrij, pair.mass_j)
    /\ req_j => speccoeff_ji = Mul(pair.dWdrji, pair.mass_i)
    /\ (/\ req_i /\ req_j
        /\ pair.dens_i = R(1) /\ pair.dens_j = R(1)
        /\ pair.mass_i = R(1) /\ pair.mass_j = R(1)
        /\ pair.dWdrij = R(-1) /\ pair.dWdrji = R(-1))
         => (speccoeff_ij = R(-1) /\ speccoeff_ji = R(-1))

\* C8 witness: the end-to-end scenario has been evaluated and has replaced
\* the prior content of a coefficient buffer
MonaghanSpecificCoefficientWitness ==
  /\ LastIs("Monaghan", OpSpecific)
  /\ req_i /\ req_j
  /\ pair.dens_i = R(1) /\ pair.dens_j = R(1)
  /\ pair.mass_i = R(1) /\ pair.mass_j = R(1)
  /\ pair.dWdrij = R(-1) /\ pair.dWdrji = R(-1)
  /\ speccoeff_ij = R(-1) /\ speccoeff_ji = R(-1)
  /\ pre.speccoeff_ji # speccoeff_ji

\* the shared prefactor (mass_i/dens_i)^2 + (mass_j/dens_j)^2 as C9 states it
ClaimAdamiFac ==
  Add(Mul(Div(pair.mass_i, pair.dens_i), Div(pair.mass_i, pair.dens_i)),
      Mul(Div(pair.mass_j, pair.dens_j), Div(pair.mass_j, pair.dens_j)))

\* C9: Adami specific_coefficient sets speccoeff_ij = fac * dWdrij / mass_i
\* and speccoeff_ji = fac * dWdrji / mass_j with the shared prefactor
\* fac = (mass_i/dens_i)^2 + (mass_j/dens_j)^2; dens = 2, mass = 1 and
\* dWdrij = dWdrji = 1 yield fac = 0.5 and speccoeff_ij = speccoeff_ji = 0.5.
AdamiSpecificCoefficient ==
  LastIs("Adami", OpSpecific) =>
    /\ Last.err = NoError
    /\ req_i => speccoeff_ij = Div(Mul(ClaimAdamiFac, pair.dWdrij), pair.mass_i)
    /\ req_j => speccoeff_ji = Div(Mul(ClaimAdamiFac, pair.dWdrji), pair.mass_j)
    /\ (/\ req_i /\ req_j
        /\ pair.dens_i = R(2) /\ pair.dens_j = R(2)
        /\ pair.mass_i = R(1) /\ pair.mass_j = R(1)
        /\ pair.dWdrij = R(1) /\ pair.dWdrji = R(1))
         => (/\ ClaimAdamiFac = Q(1, 2)
             /\ speccoeff_ij = Q(1, 2) /\ speccoeff_ji = Q(1, 2))

\* C9 witness: the end-to-end scenario has been evaluated
AdamiSpecificCoefficientWitness ==
  /\ LastIs("Adami", OpSpecific)
  /\ req_i /\ req_j
  /\ pair.dens_i = R(2) /\ pair.dens_j = R(2)
  /\ pair.mass_i = R(1) /\ pair.mass_j = R(1)
  /\ pair.dWdrij = R(1) /\ pair.dWdrji = R(1)
  /\ speccoeff_ij = Q(1, 2) /\ speccoeff_ji = Q(1, 2)

\* C10: the negative diffusion coefficient of Monaghan shear_forces is the
\* only failure: a call raises an error only if it is Monaghan shear_forces
\* with 5*scaled_viscosity - bulk_viscosity < 0, and then it is that error.
OnlyFailureIsNegativeDiffusion ==
  Called =>
    /\ Last.err \in {NoError, NegDiffusion}
    /\ Last.err # NoError =>
         /\ variant = "Monaghan"
         /\ Last.op = OpShear
         /\ ClaimDiffusionNegative

\* C10 witness: Adami shear_forces has completed without error on a
\* non-positive viscosity with positive bulk viscosities
OnlyFailureWitness ==
  /\ LastIs("Adami", OpShear)
  /\ SomeViscosityNonPositive /\ BothBulkPositive
  /\ Last.err = NoError

\* C11: Adami shear_forces with visc_i <= 0 or visc_j <= 0 returns at once:
\* no error, acc_i and acc_j exactly as before, whatever the velocities,
\* abs_rij (zero included), coefficients and bulk viscosities are.
AdamiShearSilentNoOp ==
  (LastIs("Adami", OpShear) /\ SomeViscosityNonPositive) =>
    /\ Last.err = NoError
    /\ Outputs = pre

\* C11 witness: Adami shear_forces was called at zero distance with one
\* viscosity zero and both accumulators requested
AdamiShearSilentNoOpWitness ==
  /\ LastIs("Adami", OpShear)
  /\ IsZero(pair.visc_i) /\ Gt0(pair.visc_j)
  /\ IsZero(pair.abs_rij)
  /\ BothBulkPositive
  /\ req_i /\ req_j
  /\ Last.err = NoError

\* the vector A of C12: the sum of the terms of the sides whose
\* modified-velocity pointer is non-null
ClaimA ==
  VAdd(ClaimSideTerm(pair.mod_vel_i, pair.vel_i, pair.dens_i),
       ClaimSideTerm(pair.mod_vel_j, pair.vel_j, pair.dens_j))

\* C12: modified_velocity_contribution builds A from the sides with a
\* non-null modified velocity, side k giving w_k*((mod_vel_k - vel_k).e_ij)*vel_k
\* (w_k = 1/dens_k for Monaghan, 0.5*dens_k for Adami), adds +speccoeff_ij*A
\* to acc_i and -speccoeff_ji*A to acc_j, and adds zero to both when both
\* modified velocities are null.
ModifiedVelocityFormula ==
  (Called /\ Last.op = OpModVel) =>
    /\ Last.err = NoError
    /\ req_i => Added_i = VScale(Last.sc_ij, ClaimA)
    /\ req_j => Added_j = VScale(Neg(Last.sc_ji), ClaimA)
    /\ (pair.mod_vel_i.null /\ pair.mod_vel_j.null) =>
         (acc_i = pre.acc_i /\ acc_j = pre.acc_j)

\* C12 witness: only side j has a modified velocity, and the call has
\* changed both accumulators
ModifiedVelocityWitness ==
  /\ Called /\ Last.op = OpModVel
  /\ pair.mod_vel_i.null /\ ~pair.mod_vel_j.null
  /\ req_i /\ req_j
  /\ acc_i # pre.acc_i /\ acc_j # pre.acc_j

\* C16: when Monaghan shear_forces fails with a negative diffusion
\* coefficient no accumulator has been touched: acc_i and acc_j (and every
\* other buffer) hold their pre-call values.
FailureBeforeAccumulation ==
  (LastIs("Monaghan", OpShear) /\ Last.err = NegDiffusion) => Outputs = pre

\* C16 witness: a Monaghan shear_forces call with both accumulators requested,
\* a non-zero relative velocity and non-zero coefficients has failed
FailureBeforeAccumulationWitness ==
  /\ LastIs("Monaghan", OpShear) /\ Last.err = NegDiffusion
  /\ req_i /\ req_j
  /\ pair.vel_i # pair.vel_j
  /\ ~IsZero(Last.sc_ij) /\ ~IsZero(Last.sc_ji)
  /\ ~IsZero(pair.abs_rij)

\* the factor of C17: press_i/dens_i^2 + press_j/dens_j^2
ClaimMonaghanPressureFac ==
  Add(Div(pair.press_i, Mul(pair.dens_i, pair.dens_i)),
      Div(pair.press_j, Mul(pair.dens_j, pair.dens_j)))

\* C17: Monaghan pressure_gradient adds -speccoeff_ij*fac*e_ij to acc_i and
\* +speccoeff_ji*fac*e_ij to acc_j with fac = press_i/dens_i^2 + press_j/dens_j^2.
MonaghanPressureFormula ==
  LastIs("Monaghan", OpPressure) =>
    /\ Last.err = NoError
    /\ req_i => Added_i = VScale(Mul(Neg(Last.sc_ij), ClaimMonaghanPressureFac), pair.e_ij)
    /\ req_j => Added_j = VScale(Mul(Last.sc_ji, ClaimMonaghanPressureFac), pair.e_ij)

\* C17 witness: Monaghan pressure_gradient has changed both accumulators of a
\* pair with different densities and pressures
MonaghanPressureWitness ==
  /\ LastIs("Monaghan", OpPressure)
  /\ req_i /\ req_j
  /\ pair.dens_i # pair.dens_j /\ pair.press_i # pair.press_j
  /\ acc_i # pre.acc_i /\ acc_j # pre.acc_j

\* the two forms of the factor of C18
ClaimAdamiPressureFacWeighted ==
  Div(Add(Div(pair.press_i, pair.dens_i), Div(pair.press_j, pair.dens_j)),
      Add(Div(R(1), pair.dens_i), Div(R(1), pair.dens_j)))
ClaimAdamiPressureFac ==
  Div(Add(Mul(pair.dens_i, pair.press_j), Mul(pair.dens_j, pair.press_i)),
      Add(pair.dens_i, pair.dens_j))

\* x lies between a and b
Between(x, a, b) ==
  \/ AtLeast(x, a) /\ AtLeast(b, x)
  \/ AtLeast(x, b) /\ AtLeast(a, x)

\* C18: Adami pressure_gradient uses the inverse-density-weighted average
\* fac = (press_i/dens_i + press_j/dens_j)/(1/dens_i + 1/dens_j)
\*     = (dens_i*press_j + dens_j*press_i)/(dens_i + dens_j);
\* fac = p when press_i = press_j = p, and for positive densities fac lies
\* between press_i and press_j.
AdamiPressureFormula ==
  LastIs("Adami", OpPressure) =>
    /\ Last.err = NoError
    /\ req_i => Added_i = VScale(Mul(Neg(Last.sc_ij), ClaimAdamiPressureFacWeighted), pair.e_ij)
    /\ req_j => Added_j = VScale(Mul(Last.sc_ji, ClaimAdamiPressureFacWeighted), pair.e_ij)
    /\ ClaimAdamiPressureFacWeighted = ClaimAdamiPressureFac
    /\ ClaimAdamiPressureFac = Adami_pressure_fac(pair)
    /\ pair.press_i = pair.press_j => Adami_pressure_fac(pair) = pair.press_i
    /\ (Gt0(pair.dens_i) /\ Gt0(pair.dens_j)) =>
         Between(Adami_pressure_fac(pair), pair.press_i, pair.press_j)

\* C18 witness: Adami pressure_gradient has changed both accumulators of a
\* pair with different densities and pressures
AdamiPressureWitness ==
  /\ LastIs("Adami", OpPressure)
  /\ req_i /\ req_j
  /\ pair.dens_i # pair.dens_j /\ pair.press_i # pair.press_j
  /\ acc_i # pre.acc_i /\ acc_j # pre.acc_j

\* the vector of C19: (D*vel_ij + C*(vel_ij . e_ij)*e_ij) / (dens_i*dens_j*abs_rij)
ClaimMonaghanShearVector ==
  LET vel_ij == VSub(pair.vel_i, pair.vel_j)
      D == Sub(Mul(R(5), ClaimScaledViscosity), ClaimBulkViscosity)
      C == Mul(pair.kernelfac, Add(ClaimBulkViscosity, ClaimScaledViscosity))
      denom == Mul(Mul(pair.dens_i, pair.dens_j), pair.abs_rij)
      v == VAdd(VScale(D, vel_ij), VScale(Mul(C, vec_dot(vel_ij, pair.e_ij)), pair.e_ij))
  IN  [k \in 1..3 |-> Div(v[k], denom)]

\* C19: Monaghan shear_forces, when it does not fail, adds to acc_i
\* speccoeff_ij * (D*vel_ij + C*(vel_ij . e_ij)*e_ij)/(dens_i*dens_j*abs_rij)
\* and to acc_j -speccoeff_ji times the same vector, D = 5*scaled_viscosity -
\* bulk_viscosity, C = kernelfac*(bulk_viscosity + scaled_viscosity), each
\* viscosity being 0 unless both of its inputs are > 0.
MonaghanShearFormula ==
  (LastIs("Monaghan", OpShear) /\ Last.err = NoError) =>
    /\ req_i => Added_i = VScale(Last.sc_ij, ClaimMonaghanShearVector)
    /\ req_j => Added_j = VScale(Neg(Last.sc_ji), ClaimMonaghanShearVector)

\* C19 witness: Monaghan shear_forces has completed with a diffusion and a
\* convection term and has changed both accumulators
MonaghanShearWitness ==
  /\ LastIs("Monaghan", OpShear) /\ Last.err = NoError
  /\ AllViscositiesPositive
  /\ Gt0(Sub(Mul(R(5), ClaimScaledViscosity), ClaimBulkViscosity))
  /\ ~IsZero(vec_dot(VSub(pair.vel_i, pair.vel_j), pair.e_ij))
  /\ ~IsZero(pair.abs_rij)
  /\ req_i /\ req_j
  /\ acc_i # pre.acc_i /\ acc_j # pre.acc_j

\* the harmonic mean of the two viscosities
ClaimHarmonicViscosity ==
  Div(Mul(R(2), Mul(pair.visc_i, pair.visc_j)), Add(pair.visc_i, pair.visc_j))

\* the pair with the quantities C20 names as irrelevant all changed
OtherIrrelevantInputs ==
  [pair EXCEPT !.bulk_visc_i = Add(pair.bulk_visc_i, R(1)),
               !.bulk_visc_j = Add(pair.bulk_visc_j, R(2)),
               !.kernelfac = Add(pair.kernelfac, R(1)),
               !.dens_i = Add(pair.dens_i, R(1)),
               !.dens_j = Add(pair.dens_j, R(3)),
               !.e_ij = Vec(0, 0, 1)]

\* C20: Adami shear_forces with visc_i > 0 and visc_j > 0 adds
\* +speccoeff_ij*(mu/abs_rij)*(vel_i - vel_j) to acc_i and
\* -speccoeff_ji*(mu/abs_rij)*(vel_i - vel_j) to acc_j, mu the harmonic mean
\* of the viscosities; bulk_visc_i, bulk_visc_j, kernelfac, dens_i, dens_j
\* and e_ij do not enter the result.
AdamiShearFormula ==
  (LastIs("Adami", OpShear) /\ Gt0(pair.visc_i) /\ Gt0(pair.visc_j)) =>
    LET term == VScale(Div(ClaimHarmonicViscosity, pair.abs_rij),
                       VSub(pair.vel_i, pair.vel_j))
        other == Call(variant, OpShear, OtherIrrelevantInputs, Last.sc_ij, Last.sc_ji,
                      Arg(req_i, pre.acc_i), Arg(req_j, pre.acc_j))
    IN  /\ Last.err = NoError
        /\ req_i => Added_i = VScale(Last.sc_ij, term)
        /\ req_j => Added_j = VScale(Neg(Last.sc_ji), term)
        /\ req_i => acc_i = other.out_i.at
        /\ req_j => acc_j = other.out_j.at

\* C20 witness: Adami shear_forces with two different positive viscosities has
\* changed both accumulators
AdamiShearWitness ==
  /\ LastIs("Adami", OpShear)
  /\ Gt0(pair.visc_i) /\ Gt0(pair.visc_j) /\ pair.visc_i # pair.visc_j
  /\ BothBulkPositive
  /\ ~IsZero(pair.abs_rij)
  /\ req_i /\ req_j
  /\ acc_i # pre.acc_i /\ acc_j # pre.acc_j

\* the operation of the call a step makes
StepOp == hist'[Len(hist')].op

\* C13: no call changes an input: the particle state, the velocities and
\* modified velocities, the pair geometry and (for the force operations) the
\* supplied coefficients are the same after every call, failed calls
\* included; only the non-null outputs of the called operation may change.
InputsNeverMutated ==
  [][ /\ pair' = pair
      /\ (StepOp # OpSpecific) =>
           (speccoeff_ij' = speccoeff_ij /\ speccoeff_ji' = speccoeff_ji)
      /\ (StepOp \notin AccOps) => (acc_i' = acc_i /\ acc_j' = acc_j)
      /\ (StepOp \notin ModAccOps) => (mod_acc_i' = mod_acc_i /\ mod_acc_j' = mod_acc_j)
      /\ ~req_i => (speccoeff_ij' = speccoeff_ij /\ acc_i' = acc_i /\ mod_acc_i' = mod_acc_i)
      /\ ~req_j => (speccoeff_ji' = speccoeff_ji /\ acc_j' = acc_j /\ mod_acc_j' = mod_acc_j)
    ]_vars

\* C13 witness: a shear_forces call has changed acc_i and acc_j and has left
\* the supplied coefficients as they were
InputsNeverMutatedWitness ==
  /\ Called /\ Last.op = OpShear /\ Last.err = NoError
  /\ req_i /\ req_j
  /\ acc_i # pre.acc_i /\ acc_j # pre.acc_j
  /\ speccoeff_ij = Last.sc_ij /\ speccoeff_ji = Last.sc_ji

Writes(w) ==
  {p \in Particles : \/ (job[w].req_i /\ p = job[w].tgt_i)
                     \/ (job[w].req_j /\ p = job[w].tgt_j)}
DisjointWrites ==
  \A u \in Workers : \A w \in Workers \ {u} : Writes(u) \cap Writes(w) = {}
WrittenByTwo(p) ==
  \E u \in Workers : \E w \in Workers \ {u} : p \in Writes(u) \cap Writes(w)
AllReturned == \A w \in Workers : worker[w] = Returned

\* the accumulators after worker w's call has run on its own on m
CallAlone(m, w) ==
  LET r == Call(variant, OpPressure, WorkerPair(w), WorkerCoeffs(w)[1], WorkerCoeffs(w)[2],
                Arg(job[w].req_i, m[job[w].tgt_i]), Arg(job[w].req_j, m[job[w].tgt_j]))
  IN  [p \in Particles |->
         IF job[w].req_i /\ p = job[w].tgt_i THEN r.out_i.at
         ELSE IF job[w].req_j /\ p = job[w].tgt_j THEN r.out_j.at
         ELSE m[p]]

\* the orders in which the calls can run one after the other
Orders ==
  {o \in [1..Cardinality(Workers) -> Workers] :
     \A a \in DOMAIN o : \A b \in DOMAIN o : o[a] = o[b] => a = b}

RECURSIVE RunFirst(_, _)
\* the accumulators after the first n calls of order o, one after the other
RunFirst(o, n) == IF n = 0 THEN Accel0 ELSE CallAlone(RunFirst(o, n - 1), o[n])
Sequentially(o) == RunFirst(o, Cardinality(Workers))

\* an accumulator that differs from what some sequential order leaves in it
LostUpdate(p) == AllReturned /\ \E o \in Orders : accel[p] # Sequentially(o)[p]

\* C15: when the concurrent pressure_gradient calls write pairwise disjoint
\* accumulators, every interleaving of their steps leaves the accumulators as
\* running the calls one after the other, in any order, leaves them; and an
\* accumulator holds a lost update only if two of the calls add into it.
ConcurrentPairsSafe ==
  /\ (AllReturned /\ DisjointWrites) => \A o \in Orders : accel = Sequentially(o)
  /\ \A p \in Particles : LostUpdate(p) => WrittenByTwo(p)

\* C15 witness: two calls with disjoint, non-empty write sets have both
\* returned after running interleaved, and the accumulators have changed
ConcurrentPairsWitness ==
  /\ AllReturned
  /\ DisjointWrites
  /\ interleaved
  /\ \A w \in Workers : Writes(w) # {}
  /\ \A w \in Workers : \A p \in Writes(w) : accel[p] # Accel0[p]

\* what the last operation adds to zeroed i-side and j-side accumulators when
\* it is called on the pair state a with the coefficients sc_ij, sc_ji
TermOn(a, sc_ij, sc_ji) ==
  LET r == Call(variant, Last.op, a, sc_ij, sc_ji, PtrTo(ZeroVec), PtrTo(ZeroVec))
  IN  [i |-> r.out_i.at, j |-> r.out_j.at, err |-> r.err]

\* the last call's term with one density replaced
WithDens_i(d) == TermOn([pair EXCEPT !.dens_i = R(d)], Last.sc_ij, Last.sc_ji)
WithDens_j(d) == TermOn([pair EXCEPT !.dens_j = R(d)], Last.sc_ij, Last.sc_ji)

\* the i-side term is a constant over dens_i^2 and ignores dens_j, the j-side
\* term is a constant over dens_j^2 and ignores dens_i
NormalizedPerSide ==
  /\ req_i => \A d \in Pos :
       /\ VScale(pow2(R(d)), WithDens_i(d).i) = VScale(pow2(pair.dens_i), ModAdded_i)
       /\ WithDens_j(d).i = ModAdded_i
  /\ req_j => \A d \in Pos :
       /\ VScale(pow2(R(d)), WithDens_j(d).j) = VScale(pow2(pair.dens_j), ModAdded_j)
       /\ WithDens_i(d).j = ModAdded_j

\* the factor of Monaghan's standard_background_pressure as it is computed
ClaimSymmetricBackgroundFac ==
  Add(Div(R(1), Mul(pair.dens_i, pair.dens_i)), Div(R(1), Mul(pair.dens_j, pair.dens_j)))

\* C21 as stated: both Monaghan background-pressure terms are normalised per
\* side, the i-side term by dens_i^2 whatever dens_j is and the j-side term by
\* dens_j^2 whatever dens_i is.
BackgroundNormalizedPerSide ==
  (Called /\ variant = "Monaghan" /\ Last.op \in ModAccOps) => NormalizedPerSide

\* C21 amended: Monaghan's generalized_background_pressure is normalised per
\* side; its standard_background_pressure scales both sides by the symmetric
\* factor 1/dens_i^2 + 1/dens_j^2, adding -speccoeff_ij * bg_press_i * fac * e_ij
\* to mod_acc_i and speccoeff_ji * bg_press_j * fac * e_ij to mod_acc_j.
BackgroundNormalization ==
  /\ LastIs("Monaghan", OpGenBg) => NormalizedPerSide
  /\ LastIs("Monaghan", OpStdBg) =>
       /\ req_i => ModAdded_i =
            VScale(Mul(Mul(Neg(Last.sc_ij), pair.bg_press_i), ClaimSymmetricBackgroundFac),
                   pair.e_ij)
       /\ req_j => ModAdded_j =
            VScale(Mul(Mul(Last.sc_ji, pair.bg_press_j), ClaimSymmetricBackgroundFac),
                   pair.e_ij)

\* C21 witness: Monaghan's standard_background_pressure has added to both
\* accumulators a term that another dens_j would have changed on the i side
BackgroundNormalizationWitness ==
  /\ LastIs("Monaghan", OpStdBg)
  /\ req_i /\ req_j
  /\ pair.dens_i # pair.dens_j
  /\ ModAdded_i # ZeroVec /\ ModAdded_j # ZeroVec
  /\ \E d \in Pos : WithDens_j(d).i # ModAdded_i

\* the scalar the claim puts in front of e_ij on one side:
\* bg_press * mass * dWdr / dens^2
ClaimGeneralizedFac(bg_press, mass, dWdr, dens) ==
  Div(Mul(Mul(bg_press, mass), dWdr), Mul(dens, dens))

\* the last call's term with the j side's (resp. i side's) modified background
\* pressure and modified kernel gradient, and the coefficient pair, replaced
WithOtherSide_j(g, w, sc) ==
  TermOn([pair EXCEPT !.mod_bg_press_j = R(g), !.mod_dWdrji = R(w)], sc[1], sc[2])
WithOtherSide_i(g, w, sc) ==
  TermOn([pair EXCEPT !.mod_bg_press_i = R(g), !.mod_dWdrij = R(w)], sc[1], sc[2])

\* C22: generalized_background_pressure adds
\* -mod_bg_press_i * mass * mod_dWdrij / dens_i^2 * e_ij to mod_acc_i and
\* +mod_bg_press_j * mass * mod_dWdrji / dens_j^2 * e_ij to mod_acc_j, the mass
\* being the neighbour's in Monaghan and the side's own in Adami; neither side
\* depends on the coefficient pair or on the other side's modified background
\* pressure and modified kernel gradient.
GeneralizedBackgroundFormula ==
  (Called /\ Last.op = OpGenBg) =>
    LET m_i == IF variant = "Monaghan" THEN pair.mass_j ELSE pair.mass_i
        m_j == IF variant = "Monaghan" THEN pair.mass_i ELSE pair.mass_j
    IN  /\ req_i =>
             /\ ModAdded_i =
                  VScale(Neg(ClaimGeneralizedFac(pair.mod_bg_press_i, m_i,
                                                 pair.mod_dWdrij, pair.dens_i)), pair.e_ij)
             /\ \A g \in Pos : \A w \in Signs : \A sc \in CoeffPairs :
                  WithOtherSide_j(g, w, sc).i = ModAdded_i
        /\ req_j =>
             /\ ModAdded_j =
                  VScale(ClaimGeneralizedFac(pair.mod_bg_press_j, m_j,
                                             pair.mod_dWdrji, pair.dens_j), pair.e_ij)
             /\ \A g \in Pos : \A w \in Signs : \A sc \in CoeffPairs :
                  WithOtherSide_i(g, w, sc).j = ModAdded_j

\* C22 witness: Adami's generalized_background_pressure has added non-zero
\* terms to both accumulators for particles of different mass and different
\* modified background pressure
GeneralizedBackgroundWitness ==
  /\ LastIs("Adami", OpGenBg)
  /\ req_i /\ req_j
  /\ pair.mass_i # pair.mass_j
  /\ pair.mod_bg_press_i # pair.mod_bg_press_j
  /\ ModAdded_i # ZeroVec /\ ModAdded_j # ZeroVec

\* the force terms that take the coefficient pair
CoeffOps == {OpPressure, OpShear, OpStdBg, OpModVel}

\* what the last call added to the i-side / j-side buffer it writes
LastAdded(side) == VSub(OutNow(Last.op, side), OutBefore(Last.op, side))

\* pairs of factors, different on the two sides, by which the two coefficients
\* are scaled
Scalings == {<<0, 2>>, <<2, -1>>, <<-1, 0>>}

MomentumOps == {OpPressure, OpShear, OpModVel}

\* the last call was made with both coefficients as the variant's
\* specific_coefficient had just stored them
CoefficientsJustComputed ==
  /\ Len(hist) > 1
  /\ hist[Len(hist) - 1].op = OpSpecific
  /\ req_i /\ req_j

LastCall == calls[Len(calls)]
InitCalledBefore(n) == \E k \in 1..(n - 1) : calls[k].op = "init"
LifecycleCalls == {k \in 1..Len(calls) : calls[k].op \in {"init", "setup"}}
LastLifecycleCall == calls[CHOOSE k \in LifecycleCalls : \A l \in LifecycleCalls : l <= k]

\* C25: setup() on an object on which init() has never been called fails with
\* 'init() has not been called, yet!' and leaves issetup_ false; after an init()
\* call setup() succeeds and sets issetup_.
SetupNeedsInit ==
  (calls # <<>> /\ LastCall.op = "setup") =>
    IF InitCalledBefore(Len(calls))
    THEN LastCall.err = NoError /\ outparams.issetup_
    ELSE LastCall.err = NotInit /\ ~outparams.issetup_ /\ ~outparams.isinit_

\* C25 witness: setup() has failed on the fresh object and has succeeded after
\* init()
SetupNeedsInitWitness ==
  /\ Len(calls) = 3
  /\ calls[1].op = "setup" /\ calls[1].err = NotInit
  /\ calls[2].op = "init"
  /\ calls[3].op = "setup" /\ calls[3].err = NoError
  /\ outparams.issetup_

\* C26: the object starts with both flags false, issetup_ implies isinit_ in
\* every state, and isinit_ holds in every state after an init() call.
SetupImpliesInit ==
  /\ calls = <<>> => (~outparams.isinit_ /\ ~outparams.issetup_)
  /\ outparams.issetup_ => outparams.isinit_
  /\ InitCalledBefore(Len(calls) + 1) => outparams.isinit_

\* C26 witness: after a failing setup(), init(), setup() and a second init()
\* the object is initialised and not set up
SetupImpliesInitWitness ==
  /\ Len(calls) = 4
  /\ calls[1].op = "setup" /\ calls[1].err = NotInit
  /\ calls[2].op = "init" /\ calls[3].op = "setup" /\ calls[4].op = "init"
  /\ outparams.isinit_ /\ ~outparams.issetup_

\* C27: every init() call resets issetup_, and
\* throw_error_if_not_init_and_setup() succeeds exactly in the states whose most
\* recent init()/setup() call is a setup() that succeeded; otherwise it fails
\* with 'Call init() and setup() first!'.
InitInvalidatesSetup ==
  LET ready == /\ LifecycleCalls # {}
               /\ LastLifecycleCall.op = "setup"
               /\ LastLifecycleCall.err = NoError
      check == throw_error_if_not_init_and_setup(outparams)
  IN  /\ (calls # <<>> /\ LastCall.op = "init") => ~outparams.issetup_
      /\ check = (IF ready THEN NoError ELSE NotInitAndSetup)
      /\ (calls # <<>> /\ LastCall.op = "throw_error_if_not_init_and_setup") =>
           LastCall.err = check

\* C27 witness: init(), setup(), init() again, and the check then fails
InitInvalidatesSetupWitness ==
  /\ Len(calls) = 4
  /\ calls[1].op = "init" /\ calls[2].op = "setup" /\ calls[2].err = NoError
  /\ calls[3].op = "init"
  /\ LastCall.op = "throw_error_if_not_init_and_setup"
  /\ LastCall.err = NotInitAndSetup

\* ------------------------------------------------- electromagnetics_drt

\* the calls the driver has made on obj, in order
RECURSIVE CallsOn(_, _)
CallsOn(obj, ev) ==
  IF ev = <<>> THEN <<>>
  ELSE LET rest == CallsOn(obj, SubSeq(ev, 1, Len(ev) - 1))
           e == ev[Len(ev)]
       IN IF e.obj = obj THEN Append(rest, e.call) ELSE rest

Made(obj, f) == \E k \in 1..Len(drt.events) :
                  drt.events[k].obj = obj /\ drt.events[k].call = f

\* the driver has left, by a return or by an exception
Left == drt.pc \in {"return", "thrown"}

\* C28: the time integrator's init(), and with it integrate(), is reached
\* only in a 3D problem whose 'elemag' discretization is an HDG one, with
\* LINEAR_SOLVER other than -1 and TIMEINT one of BDF1, BDF2, BDF4; with any
\* other scheme no time integrator is ever created or called, and the
\* driver leaves by an error.
SupportedSetupOnly ==
  /\ (Made("elemagalgo", "init") \/ Made("elemagalgo", "integrate")) =>
       /\ problem.n_dim = 3
       /\ problem.elemag_is_hdg
       /\ problem.LINEAR_SOLVER # -1
       /\ problem.TIMEINT \in BDF
  /\ Made("elemagalgo", "integrate") => Made("elemagalgo", "init")
  /\ problem.TIMEINT \notin BDF =>
       /\ drt.elemagalgo = "nullptr"
       /\ drt.events = <<>>
       /\ Left => drt.pc = "thrown" /\ drt.err # ""

\* a BDF2 run in a supported setup got through init() to integrate()
SupportedSetupOnlyWitness ==
  /\ problem.TIMEINT = "elemag_bdf2"
  /\ drt.elemagalgo = "ElemagTimeInt"
  /\ Made("elemagalgo", "init")
  /\ Made("elemagalgo", "integrate")

\* the three ways the driver gives the time integrator its initial state
InitialStateActions ==
  {"read_restart", "set_initial_field", "set_initial_electric_field"}

\* the calls on the time integrator of a complete run whose initial-state
\* action is x
CompleteRun(x) ==
  <<"init", x, "print_information_to_screen", "integrate">>
    \o (IF problem.CALCERR THEN <<"compute_error", "print_errors">>
        ELSE <<>>)
    \o <<"create_field_test">>

IsPrefix(s, t) == Len(s) <= Len(t) /\ s = SubSeq(t, 1, Len(s))

\* C29: on a run that reaches integrate() the calls on the time integrator
\* are init(), one initial-state action, print_information_to_screen(),
\* integrate(), compute_error() and print_errors() only with CALCERR, and
\* the field test, in this order; the initial-state action is read_restart
\* exactly when the restart step is not 0, and otherwise one of
\* set_initial_field and set_initial_electric_field.
DriverEventOrder ==
  LET made == CallsOn("elemagalgo", drt.events) IN
  Made("elemagalgo", "integrate") =>
    \E x \in InitialStateActions :
      /\ IsPrefix(made, CompleteRun(x))
      /\ drt.pc = "return" => made = CompleteRun(x)
      /\ x = "read_restart" <=> problem.restart # 0

\* a run without restart, with a scatra-based initial field and with
\* CALCERR, has returned
DriverEventOrderWitness ==
  /\ drt.pc = "return"
  /\ problem.restart = 0
  /\ problem.CALCERR
  /\ Made("elemagalgo", "set_initial_electric_field")
  /\ Made("elemagalgo", "print_errors")

\* the statements between the two calls of set_problem_type
InScatraBlock ==
  drt.pc \in {"VELOCITYFIELD", "num_global_nodes", "add_dof_set",
              "scatraalgo", "set_initial_electric_field", "set_elemag"}

\* the exceptions thrown between the two calls of set_problem_type
ThrownInScatraBlock ==
  /\ drt.pc = "thrown"
  /\ drt.err \in {NoVelocityField, NoElements, IllegalDofsets}

\* C30: the problem type is scatra only during the scatra-based computation
\* of the initial field and is elemag again when that work is done, so that
\* integrate() is always called under problem type elemag; and the scatra
\* problem is initialized only with VELOCITYFIELD zero, any other velocity
\* field ending in an error.
ProblemTypeRestored ==
  /\ drt.pc = "integrate" => problem.problem_type = "elemag"
  /\ \A k \in 1..Len(drt.events) :
       /\ drt.events[k].call = "integrate" =>
            drt.events[k].problem_type = "elemag"
       /\ drt.events[k].obj = "scatraalgo" =>
            /\ drt.events[k].problem_type = "scatra"
            /\ problem.VELOCITYFIELD = "velocity_zero"
  /\ problem.problem_type = "scatra" =>
       /\ problem.restart = 0
       /\ problem.INITIALFIELD \in ScatraFields
       /\ InScatraBlock \/ ThrownInScatraBlock
  /\ problem.problem_type = "scatra"
       /\ problem.VELOCITYFIELD # "velocity_zero" =>
       /\ drt.pc \in {"VELOCITYFIELD", "thrown"}
       /\ drt.pc = "thrown" => drt.err = NoVelocityField

\* the scatra problem was solved under problem type scatra, and integrate()
\* was then called under problem type elemag
ProblemTypeRestoredWitness ==
  /\ \E k \in 1..Len(drt.events) :
       /\ drt.events[k].obj = "scatraalgo"
       /\ drt.events[k].call = "time_loop"
       /\ drt.events[k].problem_type = "scatra"
  /\ Made("elemagalgo", "set_initial_electric_field")
  /\ Made("elemagalgo", "integrate")
  /\ problem.problem_type = "elemag"

====
